---- MODULE Spec2Model ----
(***************************************************************************)
(* The documentation-sample test framework: the per-sample loop of         *)
(* TestRunner.run_language_tests (src/scripts/run_tests.py) driving the    *)
(* two executors of the repository, PythonExecutor (analysis mode) and     *)
(* CSharpExecutor (execution mode).                                        *)
(*                                                                         *)
(* Text is modelled as a sequence of one-character strings, so that the    *)
(* substring tests, strip() and split() of the code are computed as the    *)
(* code computes them. The backquote of a code fence is written "bq".      *)
(***************************************************************************)
EXTENDS Integers, Sequences, FiniteSets, TLC

VARIABLES
    language,          \* which executor _get_executor_for_language loaded
    validation_rules,  \* language_config['validation_rules']
    mocking_null,      \* framework_config['mocking'] is present but null
    samples,           \* the list extract_samples returned (catalogue names)
    pc,                \* position of run_language_tests in its loop body
    i,                 \* 1-based index of the sample being processed
    environment,       \* the dict prepare_test_environment returned
    result,            \* the local variable result of the loop body
    exc,               \* text of the exception in flight to the handler
    results,           \* the list run_language_tests returns
    dirs,              \* temporary directories that exist on disk
    mkdtemp_count,     \* how many names tempfile.mkdtemp has handed out
    env_of,            \* history: sample index -> directory of the environment
                       \*          prepare returned for it (0: none returned)
    dir_users,         \* history: directory -> samples prepare created it for
    prepare_exc,       \* history: sample index -> text prepare raised ("": none)
    cleanup_calls,     \* history: directory -> calls of cleanup on it
    rmtree_failed,     \* history: directories whose deletion failed
    how,               \* history: what produced each element of results
    call,              \* a function under study and the arguments it is given
    ret                \* what that function returned

vars == <<language, validation_rules, mocking_null, samples, pc, i, environment,
          result, exc, results, dirs, mkdtemp_count, env_of, dir_users, prepare_exc,
          cleanup_calls, rmtree_failed, how, call, ret>>

\* Longest list of samples the extractor hands to the loop.
MaxSamples == 2

(***************************************************************************)
(* Text helpers: Python's str operations on sequences of characters.       *)
(***************************************************************************)

\* c.isspace() for the characters that occur
IsSpace(c) == c \in {" ", "\n", "\t", "\r"}

\* needle in text
Contains(text, needle) ==
    \E k \in 0..(Len(text) - Len(needle)) :
        SubSeq(text, k + 1, k + Len(needle)) = needle

\* text.startswith(prefix)
StartsWith(text, prefix) ==
    /\ Len(prefix) <= Len(text)
    /\ SubSeq(text, 1, Len(prefix)) = prefix

\* text.strip()
Strip(text) ==
    LET keep == {k \in 1..Len(text) : ~IsSpace(text[k])}
        lo == CHOOSE k \in keep : \A m \in keep : k <= m
        hi == CHOOSE k \in keep : \A m \in keep : m <= k
    IN  IF keep = {} THEN <<>> ELSE SubSeq(text, lo, hi)

\* text.split('\n')
RECURSIVE SplitLines(_)
SplitLines(text) ==
    LET nl == {k \in 1..Len(text) : text[k] = "\n"}
        first == CHOOSE k \in nl : \A m \in nl : k <= m
    IN  IF nl = {} THEN <<text>>
        ELSE <<SubSeq(text, 1, first - 1)>>
             \o SplitLines(SubSeq(text, first + 1, Len(text)))

\* c.lower()
LowerChar(c) ==
    CASE c = "A" -> "a" [] c = "B" -> "b" [] c = "C" -> "c" [] c = "D" -> "d"
      [] c = "E" -> "e" [] c = "F" -> "f" [] c = "G" -> "g" [] c = "H" -> "h"
      [] c = "I" -> "i" [] c = "J" -> "j" [] c = "K" -> "k" [] c = "L" -> "l"
      [] c = "M" -> "m" [] c = "N" -> "n" [] c = "O" -> "o" [] c = "P" -> "p"
      [] c = "Q" -> "q" [] c = "R" -> "r" [] c = "S" -> "s" [] c = "T" -> "t"
      [] c = "U" -> "u" [] c = "V" -> "v" [] c = "W" -> "w" [] c = "X" -> "x"
      [] c = "Y" -> "y" [] c = "Z" -> "z" [] OTHER -> c

\* text.lower()
Lower(text) == [k \in 1..Len(text) |-> LowerChar(text[k])]

(***************************************************************************)
(* The literal patterns of the source, and the sample texts the model      *)
(* draws from.                                                             *)
(***************************************************************************)

\* The texts the code looks for, written as it writes them; each field
\* holds what the comment above it quotes
PAT ==
    [
      \* 'from deepgram import Deepgram'
      from_deepgram_import_Deepgram |-> <<"f","r","o","m"," ","d","e","e","p","g","r","a",
          "m"," ","i","m","p","o","r","t"," ","D","e","e","p","g","r","a","m">>,
      \* 'Deepgram('
      Deepgram_call |-> <<"D","e","e","p","g","r","a","m","(">>,
      \* 'deepgram.transcription.prerecorded'
      transcription_prerecorded |-> <<"d","e","e","p","g","r","a","m",".","t","r","a","n",
          "s","c","r","i","p","t","i","o","n",".","p","r","e","r","e","c","o","r","d","e",
          "d">>,
      \* 'DeepgramClient'
      DeepgramClient |-> <<"D","e","e","p","g","r","a","m","C","l","i","e","n","t">>,
      \* 'from deepgram import DeepgramClient'
      from_deepgram_import_DeepgramClient |-> <<"f","r","o","m"," ","d","e","e","p","g","r",
          "a","m"," ","i","m","p","o","r","t"," ","D","e","e","p","g","r","a","m","C","l",
          "i","e","n","t">>,
      \* 'from deepgram import'
      from_deepgram_import |-> <<"f","r","o","m"," ","d","e","e","p","g","r","a","m"," ",
          "i","m","p","o","r","t">>,
      \* 'os.getenv'
      os_getenv |-> <<"o","s",".","g","e","t","e","n","v">>,
      \* 'os.environ'
      os_environ |-> <<"o","s",".","e","n","v","i","r","o","n">>,
      \* 'import os'
      import_os |-> <<"i","m","p","o","r","t"," ","o","s">>,
      \* 'load_dotenv'
      load_dotenv |-> <<"l","o","a","d","_","d","o","t","e","n","v">>,
      \* 'from dotenv import load_dotenv'
      from_dotenv_import_load_dotenv |-> <<"f","r","o","m"," ","d","o","t","e","n","v"," ",
          "i","m","p","o","r","t"," ","l","o","a","d","_","d","o","t","e","n","v">>,
      \* '"YOUR_API_KEY"'
      YOUR_API_KEY_dq |-> <<"\"","Y","O","U","R","_","A","P","I","_","K","E","Y","\"">>,
      \* "'YOUR_API_KEY'"
      YOUR_API_KEY_sq |-> <<"'","Y","O","U","R","_","A","P","I","_","K","E","Y","'">>,
      \* '"path/to/audio.wav"'
      audio_path_dq |-> <<"\"","p","a","t","h","/","t","o","/","a","u","d","i","o",".","w",
          "a","v","\"">>,
      \* "'path/to/audio.wav'"
      audio_path_sq |-> <<"'","p","a","t","h","/","t","o","/","a","u","d","i","o",".","w",
          "a","v","'">>,
      \* 'try:'
      try |-> <<"t","r","y",":">>,
      \* 'AsyncDeepgramClient'
      AsyncDeepgramClient |-> <<"A","s","y","n","c","D","e","e","p","g","r","a","m","C","l",
          "i","e","n","t">>,
      \* 'await'
      await |-> <<"a","w","a","i","t">>,
      \* 'https://api.deepgram.com'
      api_url |-> <<"h","t","t","p","s",":","/","/","a","p","i",".","d","e","e","p","g","r",
          "a","m",".","c","o","m">>,
      \* 'audio'
      audio |-> <<"a","u","d","i","o">>,
      \* '.wav'
      wav |-> <<".","w","a","v">>,
      \* '.mp3'
      mp3 |-> <<".","m","p","3">>,
      \* '.m4a'
      m4a |-> <<".","m","4","a">>,
      \* 'audioFile'
      audioFile |-> <<"a","u","d","i","o","F","i","l","e">>,
      \* 'File.ReadAllBytes'
      File_ReadAllBytes |-> <<"F","i","l","e",".","R","e","a","d","A","l","l","B","y","t",
          "e","s">>,
      \* 'Transcribe.File'
      Transcribe_File |-> <<"T","r","a","n","s","c","r","i","b","e",".","F","i","l","e">>,
      \* 'YOUR_API_KEY'
      YOUR_API_KEY |-> <<"Y","O","U","R","_","A","P","I","_","K","E","Y">>,
      \* 'using Deepgram'
      using_Deepgram |-> <<"u","s","i","n","g"," ","D","e","e","p","g","r","a","m">>,
      \* 'Deepgram.'
      Deepgram_dot |-> <<"D","e","e","p","g","r","a","m",".">>,
      \* 'deepgram'
      deepgram |-> <<"d","e","e","p","g","r","a","m">>
    ]

\* "print('hi there')"
PyTiny ==
    <<"p","r","i","n","t","(","'","h","i"," ","t","h","e","r","e","'",")">>

\* '# set up the client\n# then call it'
PyComment ==
    <<"#"," ","s","e","t"," ","u","p"," ","t","h","e"," ","c","l","i","e","n","t","\n","#"," ",
      "t","h","e","n"," ","c","a","l","l"," ","i","t">>

\* 'dg = Deepgram("YOUR_API_KEY")'
PyOldCtor ==
    <<"d","g"," ","="," ","D","e","e","p","g","r","a","m","(","\"","Y","O","U","R","_","A","P",
      "I","_","K","E","Y","\"",")">>

\* "import os\nkey = os.getenv('DG_KEY')"
PyGood ==
    <<"i","m","p","o","r","t"," ","o","s","\n","k","e","y"," ","="," ","o","s",".","g","e","t",
      "e","n","v","(","'","D","G","_","K","E","Y","'",")">>

\* 'audio = open("path/to/audio.wav")'
PyAudio ==
    <<"a","u","d","i","o"," ","="," ","o","p","e","n","(","\"","p","a","t","h","/","t","o","/",
      "a","u","d","i","o",".","w","a","v","\"",")">>

\* 'var dg = new DeepgramClient("YOUR_API_KEY");'
CsClient ==
    <<"v","a","r"," ","d","g"," ","="," ","n","e","w"," ","D","e","e","p","g","r","a","m","C",
      "l","i","e","n","t","(","\"","Y","O","U","R","_","A","P","I","_","K","E","Y","\"",")",";">>

\* 'var r = await deepgram.Transcribe.File("a.wav");'
CsAudio ==
    <<"v","a","r"," ","r"," ","="," ","a","w","a","i","t"," ","d","e","e","p","g","r","a","m",
      ".","T","r","a","n","s","c","r","i","b","e",".","F","i","l","e","(","\"","a",".","w","a",
      "v","\"",")",";">>

\* '#define DEEPGRAM_TRACE\n#pragma warning disable'
CsDirective ==
    <<"#","d","e","f","i","n","e"," ","D","E","E","P","G","R","A","M","_","T","R","A","C","E",
      "\n","#","p","r","a","g","m","a"," ","w","a","r","n","i","n","g"," ","d","i","s","a","b",
      "l","e">>

\* The parts of the patterns of a fenced block: the fence (three backquotes),
\* the openings the two extractors look for, and the closing of the Python pattern
FENCE ==
    [ mark |->
        <<"bq","bq","bq">>,
      python |->
        <<"bq","bq","bq","p","y","t","h","o","n","\n">>,
      py |->
        <<"bq","bq","bq","p","y","\n">>,
      close |->
        <<"\n","bq","bq","bq">>,
      csharp |->
        <<"bq","bq","bq","c","s","h","a","r","p">>,
      cs |->
        <<"bq","bq","bq","c","s">>,
      c_sharp |->
        <<"bq","bq","bq","c","#">>,
      dotnet |->
        <<"bq","bq","bq","d","o","t","n","e","t">> ]

\* Texts of the documents: a block shorter than every length filter, a C# block
\* without a reference to the library, a C# block of comment lines, a C# block
\* that writes to the console, and prose
BlockText ==
    [ short |->
        <<"x"," ","="," ","1">>,
      noref |->
        <<"C","o","n","s","o","l","e",".","W","r","i","t","e","L","i","n","e","(","\"","H","e","l",
        "l","o",","," ","a","u","d","i","o"," ","w","o","r","l","d","\"",")",";">>,
      comment |->
        <<"/","/"," ","c","r","e","a","t","e"," ","t","h","e"," ","c","l","i","e","n","t"," ","h",
        "e","r","e","\n","/","/"," ","t","h","e","n"," ","t","r","a","n","s","c","r","i","b","e",
        " ","a"," ","f","i","l","e">>,
      console |->
        <<"v","a","r"," ","d","g"," ","="," ","n","e","w"," ","D","e","e","p","g","r","a","m","C",
        "l","i","e","n","t","(","\"","Y","O","U","R","_","A","P","I","_","K","E","Y","\"",")",";",
        "\n","C","o","n","s","o","l","e",".","W","r","i","t","e","L","i","n","e","(","d","g",")",
        ";">>,
      prose |->
        <<"#"," ","G","e","t","t","i","n","g"," ","s","t","a","r","t","e","d","\n","I","n","s","t",
        "a","l","l"," ","t","h","e"," ","S","D","K",","," ","t","h","e","n"," ","r","u","n"," ",
        "t","h","e"," ","s","a","m","p","l","e",".","\n">> ]

\* os.path.join(temp_dir, 'test_audio.wav') for the temp_dir '/tmp/sandbox'
MOCK_AUDIO_PATH ==
    <<"/","t","m","p","/","s","a","n","d","b","o","x","/","t","e","s","t","_","a","u","d","i",
      "o",".","w","a","v">>

\* The sample texts, by name.
Code(name) ==
    CASE name = "PyTiny" -> PyTiny
      [] name = "PyComment" -> PyComment
      [] name = "PyOldCtor" -> PyOldCtor
      [] name = "PyGood" -> PyGood
      [] name = "PyAudio" -> PyAudio
      [] name = "CsClient" -> CsClient
      [] name = "CsAudio" -> CsAudio
      [] name = "CsDirective" -> CsDirective

PythonTexts == {"PyTiny", "PyComment", "PyOldCtor", "PyGood", "PyAudio"}

CSharpTexts == {"CsClient", "CsAudio", "CsDirective"}

(***************************************************************************)
(* BaseExecutor                                                            *)
(***************************************************************************)

\* [line.strip() for line in code.split('\n') if line.strip()]
NotEmpty(line) == line # <<>>

NonBlankLines(code) ==
    SelectSeq([k \in 1..Len(SplitLines(code)) |-> Strip(SplitLines(code)[k])], NotEmpty)

\* BaseExecutor.should_skip_sample
should_skip_sample(code) ==
    LET lines == NonBlankLines(code)
    IN  IF Len(Strip(code)) < 20 THEN TRUE
        ELSE IF \A k \in 1..Len(lines) : StartsWith(lines[k], <<"#">>) THEN TRUE
        ELSE FALSE

\* BaseExecutor.create_mock_environment: raises AttributeError when the
\* 'mocking' key of the framework configuration holds None.
create_mock_environment_raises(mockingIsNull) == mockingIsNull

\* TestResult.__post_init__: validation_results None becomes {}.
EmptyDict == [k \in {} |-> TRUE]

(***************************************************************************)
(* Extraction: what the runner needs of it. A text is a sample of a        *)
(* language when that language's extractor keeps it, and the               *)
(* requires_audio_file flag is the one the extractor computes.             *)
(***************************************************************************)

\* PythonExecutor._extract_python_samples_for_analysis: the length filter
PyExtractorKeeps(code) == ~(Strip(code) = <<>> \/ Len(Strip(code)) < 10)

\* PythonExecutor._extract_python_samples_for_analysis: requires_audio_file
PyRequiresAudioFile(code) == Contains(Lower(code), PAT.audio)

\* CSharpExecutor._should_skip_code_block
CsShouldSkipCodeBlock(code) ==
    LET lines == NonBlankLines(code)
        deepgram_patterns == {PAT.using_Deepgram, PAT.DeepgramClient,
                              PAT.Deepgram_dot, PAT.deepgram}
    IN  IF Len(Strip(code)) < 30 THEN TRUE
        ELSE IF \A k \in 1..Len(lines) :
                    \/ StartsWith(lines[k], <<"/", "/">>)
                    \/ StartsWith(lines[k], <<"/", "*">>)
                    \/ StartsWith(lines[k], <<"*">>)
             THEN TRUE
        ELSE IF ~ \E p \in deepgram_patterns : Contains(Lower(code), Lower(p)) THEN TRUE
        ELSE FALSE

\* CSharpExecutor._requires_audio_file
CsRequiresAudioFile(code) ==
    \E p \in {PAT.wav, PAT.mp3, PAT.m4a, PAT.audioFile, PAT.File_ReadAllBytes,
              PAT.Transcribe_File} :
        Contains(Lower(code), Lower(p))

\* CodeSample.requires_audio_file of the sample built from a text
requires_audio_file(lang, code) ==
    IF lang = "python" THEN PyRequiresAudioFile(code) ELSE CsRequiresAudioFile(code)

\* The samples extract_samples can return for each language.
ExtractablePython == {n \in PythonTexts : PyExtractorKeeps(Code(n))}

ExtractableCSharp == {n \in CSharpTexts : ~CsShouldSkipCodeBlock(Code(n))}

ExtractableTexts(lang) ==
    IF lang = "python" THEN ExtractablePython ELSE ExtractableCSharp

\* What the loop asks about a sample's code, computed once per text.
should_skip_table ==
    [n \in PythonTexts \cup CSharpTexts |-> should_skip_sample(Code(n))]

requires_audio_table ==
    [n \in PythonTexts \cup CSharpTexts |->
        requires_audio_file(IF n \in PythonTexts THEN "python" ELSE "csharp", Code(n))]

(***************************************************************************)
(* PythonExecutor: analysis mode                                           *)
(***************************************************************************)

Finding(issue, blocking) == [issue |-> issue, blocking |-> blocking]

When(cond, finding) == IF cond THEN <<finding>> ELSE <<>>

\* The check of outdated patterns without its test of the import line
_check_outdated_sdk_patterns_no_import(code) ==
    When(Contains(code, PAT.Deepgram_call),
         Finding("Outdated Constructor (v2/v3)", TRUE))
    \o When(Contains(code, PAT.transcription_prerecorded),
            Finding("Outdated API Pattern (v2/v3)", TRUE))

\* PythonExecutor._check_outdated_sdk_patterns
_check_outdated_sdk_patterns(code) ==
    When(Contains(code, PAT.from_deepgram_import_Deepgram),
         Finding("Outdated SDK Import (v2/v3)", TRUE))
    \o When(Contains(code, PAT.Deepgram_call),
            Finding("Outdated Constructor (v2/v3)", TRUE))
    \o When(Contains(code, PAT.transcription_prerecorded),
            Finding("Outdated API Pattern (v2/v3)", TRUE))

\* PythonExecutor._check_missing_imports
_check_missing_imports(code) ==
    When(/\ Contains(code, PAT.DeepgramClient)
         /\ ~Contains(code, PAT.from_deepgram_import_DeepgramClient)
         /\ ~Contains(code, PAT.from_deepgram_import),
         Finding("Missing Core Import", TRUE))
    \o When(/\ Contains(code, PAT.os_getenv) \/ Contains(code, PAT.os_environ)
            /\ ~Contains(code, PAT.import_os),
            Finding("Missing Standard Import", TRUE))
    \o When(/\ Contains(code, PAT.load_dotenv)
            /\ ~Contains(code, PAT.from_dotenv_import_load_dotenv),
            Finding("Missing Optional Import", FALSE))

\* PythonExecutor._check_placeholder_patterns
_check_placeholder_patterns(code) ==
    When(Contains(code, PAT.YOUR_API_KEY_dq) \/ Contains(code, PAT.YOUR_API_KEY_sq),
         Finding("Placeholder API Key", FALSE))
    \o When(Contains(code, PAT.audio_path_dq) \/ Contains(code, PAT.audio_path_sq),
            Finding("Placeholder File Path", FALSE))

\* PythonExecutor._check_best_practices
_check_best_practices(code) ==
    When(/\ Contains(code, PAT.DeepgramClient)
         /\ ~Contains(code, PAT.try)
         /\ Len(SplitLines(code)) > 10,
         Finding("Missing Error Handling", FALSE))
    \o When(Contains(code, PAT.AsyncDeepgramClient) /\ ~Contains(code, PAT.await),
            Finding("Async Pattern Issue", TRUE))

\* PythonExecutor._check_common_mistakes
_check_common_mistakes(code) ==
    When(Contains(code, PAT.DeepgramClient) /\ Contains(code, PAT.AsyncDeepgramClient),
         Finding("Mixed Client Types", FALSE))
    \o When(Contains(code, PAT.api_url),
            Finding("Hardcoded API URL", FALSE))

\* PythonExecutor._analyze_sample
_analyze_sample(code) ==
    _check_outdated_sdk_patterns(code)
    \o _check_missing_imports(code)
    \o _check_placeholder_patterns(code)
    \o _check_best_practices(code)
    \o _check_common_mistakes(code)

\* Any finding at all counted as blocking
AnyFinding(findings) == findings # <<>>

\* _analyze_sample of each text, computed once per text
analysis_table == [n \in PythonTexts |-> _analyze_sample(Code(n))]

\* any(finding.get("blocking", False) for finding in findings)
AnyBlocking(findings) == \E k \in 1..Len(findings) : findings[k].blocking

\* PythonExecutor._format_findings, line by line: the line's leading marker,
\* the count it prints and the issue it is about.
Line(mark, n, issue) == [mark |-> mark, n |-> n, issue |-> issue]

RECURSIVE FindingLines(_, _)
FindingLines(fs, blocking) ==
    IF fs = <<>> THEN <<>>
    ELSE <<Line("blank", 0, ""), Line("title", 0, Head(fs).issue)>>
         \o (IF blocking
             THEN <<Line("Problem", 0, Head(fs).issue), Line("Fix", 0, Head(fs).issue),
                    Line("Impact", 0, Head(fs).issue)>>
             ELSE <<Line("Suggestion", 0, Head(fs).issue), Line("Why", 0, Head(fs).issue)>>)
         \o FindingLines(Tail(fs), blocking)

IsBlocking(f) == f.blocking

IsSuggestion(f) == ~f.blocking

_format_findings(findings) ==
    LET blocking_issues == SelectSeq(findings, IsBlocking)
        suggestions == SelectSeq(findings, IsSuggestion)
    IN  IF findings = <<>> THEN <<Line("no issues", 0, "")>>
        ELSE (IF blocking_issues # <<>>
              THEN <<Line("blocking", Len(blocking_issues), "")>>
                   \o FindingLines(blocking_issues, TRUE)
              ELSE <<>>)
             \o (IF suggestions # <<>>
                 THEN (IF blocking_issues # <<>>
                       THEN <<Line("blank", 0, ""), Line("rule", 0, "")>> ELSE <<>>)
                      \o <<Line("suggestions", Len(suggestions), "")>>
                      \o FindingLines(suggestions, FALSE)
                 ELSE <<>>)

\* Whether PythonExecutor.execute_sample evaluates validate_sample on the
\* sample: its body analyses the text and formats the findings, and calls
\* validate_sample nowhere.
PyCallsValidateSample == FALSE

\* PythonExecutor.execute_sample, given findings = _analyze_sample(sample),
\* or raised = TRUE and text = str(e) when its try block raised e. Nothing in
\* the try block raises for a sample whose code is a string, so the except
\* branch is kept for completeness: the loop calls it with raised = FALSE.
PyExecuteSample(idx, findings, raised, text) ==
    LET has_blocking_issues == AnyBlocking(findings)
    IN  IF ~raised
        THEN [sample |-> idx,
              success |-> ~has_blocking_issues,
              stdout |-> _format_findings(findings),
              stderr |-> <<>>,
              error_message |-> "",
              validation_results |-> [findings |-> findings,
                                      blocking_issues |-> has_blocking_issues]]
        ELSE [sample |-> idx,
              success |-> FALSE,
              stdout |-> <<>>,
              stderr |-> <<>>,
              error_message |-> "Analysis error: " \o text,
              validation_results |-> [analysis_error |-> TRUE]]

(***************************************************************************)
(* CSharpExecutor: execution mode                                          *)
(***************************************************************************)

\* Does re compile the pattern? The patterns of the rules are texts without
\* metacharacters, which re compiles and finds as substrings, or hold an
\* opening parenthesis that nothing closes, on which re.search raises
\* re.error (missing ), unterminated subpattern).
ReCompiles(check) == \A k \in 1..Len(check) : check[k] # "("

\* One entry of language_config['validation_rules']: its name, its pattern
\* (valid: whether re compiles it) and its 'expected' key ("absent" when the
\* key is missing).
Rule(name, check, expected) ==
    [name |-> name, check |-> check, valid |-> ReCompiles(check), expected |-> expected]

\* rule.get('expected', False)
Expected(rule) == rule.expected = "true"

\* The body of validate_sample's loop for one rule
RuleOutcome(rule, code) ==
    LET pattern_found == Contains(code, rule.check)
    IN  IF Expected(rule) THEN pattern_found ELSE ~pattern_found

\* CSharpExecutor.validate_sample (PythonExecutor.validate_sample is the same
\* text): re.search raises re.error on a pattern that does not compile, and
\* then nothing is returned; a later rule of the same name overwrites the
\* earlier outcome.
validate_sample(code, rules) ==
    LET names == {rules[k].name : k \in 1..Len(rules)}
        last(n) == CHOOSE k \in 1..Len(rules) :
                       /\ rules[k].name = n
                       /\ \A m \in 1..Len(rules) : rules[m].name = n => m <= k
        raised == \E k \in 1..Len(rules) : ~rules[k].valid
    IN  [raised |-> raised,
         results |-> IF raised THEN EmptyDict
                     ELSE [n \in names |-> RuleOutcome(rules[last(n)], code)]]

\* The rule lists the model draws a language's configuration from. The
\* analysis-mode executor never reads its rules while a sample is processed.
RuleConfigs(lang) ==
    IF lang = "python"
    THEN { <<Rule("uses_client", PAT.DeepgramClient, "true")>> }
    ELSE { <<>>,
           <<Rule("uses_client", PAT.DeepgramClient, "true"),
             Rule("no_placeholder_key", PAT.YOUR_API_KEY, "absent")>>,
           <<Rule("findings", PAT.DeepgramClient, "true")>>,
           <<Rule("uses_client", PAT.DeepgramClient, "true"),
             Rule("bad_regex", <<"(">>, "false")>> }

\* validate_sample of each C# text under each rule list, computed once
validation_table ==
    [n \in CSharpTexts |->
        [r \in RuleConfigs("csharp") |-> validate_sample(Code(n), r)]]

\* What subprocess.run(["dotnet", "restore"]) can do: return (any exit code),
\* raise TimeoutExpired, or raise another exception (dotnet not installed).
RestoreOutcomes == {"returned", "timeout", "error"}

\* What subprocess.run(["dotnet", "run"]) can do: exit with a code, run into
\* the timeout, or fail to launch (another exception). A timed-out program
\* may have written output before it was killed; TimeoutExpired carries it.
SomeOutput == <<Line("text", 0, "")>>

RunOutcomes ==
    { [kind |-> "exit", returncode |-> 0, stdout |-> SomeOutput, stderr |-> <<>>],
      [kind |-> "exit", returncode |-> 1, stdout |-> SomeOutput, stderr |-> SomeOutput],
      [kind |-> "timeout", returncode |-> -1, stdout |-> SomeOutput, stderr |-> <<>>],
      [kind |-> "error", returncode |-> -1, stdout |-> <<>>, stderr |-> <<>>] }

\* The TestResult of execute_sample's two except branches
CsFailed(idx, message) ==
    [sample |-> idx, success |-> FALSE, stdout |-> <<>>, stderr |-> <<>>,
     error_message |-> message, validation_results |-> EmptyDict]

\* A result that ignores the exit code
CsSuccessAlways(returncode) == TRUE

\* success=result.returncode == 0
CsSuccess(returncode) == returncode = 0

\* _create_dotnet_project without its try/except around the restore step:
\* the restore step's TimeoutExpired reaches execute_sample.
_create_dotnet_project_uncaught(restore) ==
    IF restore = "timeout" THEN "TimeoutExpired"
    ELSE IF restore = "error" THEN "FileNotFoundError"
    ELSE "none"

\* CSharpExecutor._create_dotnet_project: the type of the exception it
\* raises, "none" when it returns. The TimeoutExpired of the restore step is
\* caught there (a warning is printed); any other exception of the restore
\* step (dotnet is not installed) propagates.
_create_dotnet_project(restore) ==
    IF restore = "timeout" THEN "none"
    ELSE IF restore = "error" THEN "FileNotFoundError"
    ELSE "none"

\* Whether CSharpExecutor.execute_sample evaluates validate_sample on the
\* sample: line 249 is reached when the project was created and dotnet run
\* returned.
CsCallsValidateSample(restore, run) ==
    _create_dotnet_project(restore) = "none" /\ run.kind = "exit"

\* CSharpExecutor.execute_sample: the try block and its two except branches,
\* given validation = what validate_sample(sample) does when it is reached
CsExecuteSample(idx, validation, restore, run) ==
    LET project == _create_dotnet_project(restore)
    IN  IF project = "TimeoutExpired"
        THEN CsFailed(idx, "Test execution timed out")
        ELSE IF project # "none"
        THEN CsFailed(idx, "[Errno 2] No such file or directory: 'dotnet'")
        ELSE IF run.kind = "timeout"
        THEN CsFailed(idx, "Test execution timed out")
        ELSE IF run.kind = "error"
        THEN CsFailed(idx, "[Errno 13] Permission denied: 'dotnet'")
        ELSE IF validation.raised
        THEN CsFailed(idx, "missing ), unterminated subpattern at position 0")
        ELSE [sample |-> idx,
              success |-> CsSuccess(run.returncode),
              stdout |-> run.stdout,
              stderr |-> run.stderr,
              error_message |-> "",
              validation_results |-> validation.results]

(***************************************************************************)
(* The sandbox: prepare_test_environment and cleanup_test_environment of   *)
(* both executors (the two texts differ only in the mkdtemp prefix).       *)
(***************************************************************************)

NoEnv == [temp_dir |-> 0, mock_audio |-> FALSE]

\* A fixed directory name instead of a fresh one
mkdtemp_fixed(n) == 1

\* tempfile.mkdtemp: a name no earlier call returned
mkdtemp(n) == n + 1

\* The name tempfile.mkdtemp tries: the prefix of the executor (python
\* executor line 235: the default "tmp"; csharp executor line 184) behind
\* the temporary directory, written <tempdir>, and in front of eight random
\* characters, written XXXXXXXX
MkdtempName(lang) ==
    "<tempdir>/" \o (IF lang = "python" THEN "tmp" ELSE "dotnet-test-") \o "XXXXXXXX"

\* prepare_test_environment. mkdtemp may fail (the temporary directory is
\* missing: os.mkdir raises FileNotFoundError); create_mock_environment runs
\* after the directory exists; the mock audio file is written last and the
\* write may fail (disk full: OSError of errno 28, without a file name).
\* text is str(e) of the exception; created is the directory left on disk, 0
\* when none.
prepare_test_environment(lang, needs_audio, mockingIsNull, n, mkdtemp_ok, audio_ok) ==
    IF ~mkdtemp_ok
    THEN [raised |-> TRUE,
          text |-> "[Errno 2] No such file or directory: '" \o MkdtempName(lang) \o "'",
          created |-> 0, env |-> NoEnv]
    ELSE IF create_mock_environment_raises(mockingIsNull)
    THEN [raised |-> TRUE, text |-> "'NoneType' object has no attribute 'get'",
          created |-> mkdtemp(n), env |-> NoEnv]
    ELSE IF needs_audio /\ ~audio_ok
    THEN [raised |-> TRUE, text |-> "[Errno 28] No space left on device",
          created |-> mkdtemp(n), env |-> NoEnv]
    ELSE [raised |-> FALSE, text |-> "",
          created |-> mkdtemp(n),
          env |-> [temp_dir |-> mkdtemp(n), mock_audio |-> needs_audio]]

\* cleanup_test_environment without its try/except: a failed deletion raises.
cleanup_test_environment_uncaught(env, onDisk, rmtree_ok) ==
    [raised |-> ~(rmtree_ok /\ env.temp_dir \in onDisk),
     dirs |-> IF rmtree_ok /\ env.temp_dir \in onDisk
              THEN onDisk \ {env.temp_dir} ELSE onDisk]

\* cleanup_test_environment: shutil.rmtree inside try/except Exception; a
\* failed deletion prints a warning and leaves the directory. The value is
\* the set of directories on disk afterwards; raised is always FALSE.
cleanup_test_environment(env, onDisk, rmtree_ok) ==
    [raised |-> FALSE,
     dirs |-> IF rmtree_ok /\ env.temp_dir \in onDisk
              THEN onDisk \ {env.temp_dir} ELSE onDisk]

(***************************************************************************)
(* TestRunner.run_language_tests                                           *)
(***************************************************************************)

config == <<language, validation_rules, mocking_null, samples>>

sandbox_history == <<env_of, dir_users, prepare_exc>>

\* A call of one function on its own, outside the loop
application == <<call, ret>>

NoCall == [fn |-> "none"]

NoRet == [returned |-> FALSE]

NoResult == [sample |-> 0, success |-> FALSE, stdout |-> <<>>, stderr |-> <<>>,
             error_message |-> "", validation_results |-> EmptyDict]

NoHow == [by |-> "none", restore |-> "none", run |-> "none", returncode |-> -1,
          validation_raised |-> FALSE, validated |-> FALSE]

\* executor.should_skip_sample(sample) for the sample at position k
ShouldSkip(k) == should_skip_table[samples[k]]

\* sample.requires_audio_file for the sample at position k
NeedsAudio(k) == requires_audio_table[samples[k]]

\* The progress report between execute_sample and cleanup (lines 139-166).
\* It raises TypeError when validation_results["findings"] is a rule outcome
\* (a bool, in execution mode) and the code iterates it: on the success branch
\* when it is True (line 146), on the failure branch always (line 152). In
\* analysis mode "findings" is a list of dicts and nothing raises.
ReportRaises(lang, res) ==
    /\ lang = "csharp"
    /\ "findings" \in DOMAIN res.validation_results
    /\ (res.success => res.validation_results["findings"])

\* A loop without the handler: the exception leaves run_language_tests.
CaughtNever == FALSE

\* except Exception as e: every exception raised inside the try is caught.
Caught == TRUE

\* Where control goes when a statement of the try block raises
OnRaise == IF Caught THEN "except" ELSE "aborted"

\* A handler that drops the exception's text
HandlerResultNoText(idx, text) ==
    [sample |-> idx, success |-> FALSE, stdout |-> <<>>, stderr |-> <<>>,
     error_message |-> "", validation_results |-> EmptyDict]

\* The TestResult built by the handler (lines 175-180)
HandlerResult(idx, text) ==
    [sample |-> idx, success |-> FALSE, stdout |-> <<>>, stderr |-> <<>>,
     error_message |-> text, validation_results |-> EmptyDict]

\* for i, sample in enumerate(samples): the next iteration
NextIndex(k) == k + 1

\* The lists extract_samples can return for a language
SampleLists(lang) == UNION { [1..n -> ExtractableTexts(lang)] : n \in 0..MaxSamples }

Init ==
    /\ language \in {"python", "csharp"}
    /\ validation_rules \in RuleConfigs(language)
    /\ mocking_null \in BOOLEAN
    /\ samples \in SampleLists(language)
    /\ pc = "loop"
    /\ i = 1
    /\ environment = NoEnv
    /\ result = NoResult
    /\ exc = ""
    /\ results = <<>>
    /\ dirs = {}
    /\ mkdtemp_count = 0
    /\ env_of = [k \in 1..Len(samples) |-> 0]
    /\ dir_users = [d \in {} |-> {}]
    /\ prepare_exc = [k \in 1..Len(samples) |-> ""]
    /\ cleanup_calls = [d \in {} |-> 0]
    /\ rmtree_failed = {}
    /\ how = <<>>
    /\ call = NoCall
    /\ ret = NoRet

\* Lines 118-120 and 183: no sample (left): return the results.
Return ==
    /\ pc = "loop"
    /\ i > Len(samples)
    /\ pc' = "done"
    /\ UNCHANGED <<config, application, i, environment, result, exc, results, dirs, mkdtemp_count,
                   sandbox_history, cleanup_calls, rmtree_failed, how>>

\* Lines 127-129: should_skip_sample holds: continue.
SkipSample ==
    /\ pc = "loop"
    /\ i <= Len(samples)
    /\ ShouldSkip(i)
    /\ i' = NextIndex(i)
    /\ UNCHANGED <<config, application, pc, environment, result, exc, results, dirs, mkdtemp_count,
                   sandbox_history, cleanup_calls, rmtree_failed, how>>

\* Line 133: environment = executor.prepare_test_environment(sample)
Prepare ==
    /\ pc = "loop"
    /\ i <= Len(samples)
    /\ ~ShouldSkip(i)
    /\ \E mkdtemp_ok \in BOOLEAN, audio_ok \in BOOLEAN :
         LET p == prepare_test_environment(language, NeedsAudio(i), mocking_null,
                                           mkdtemp_count, mkdtemp_ok, audio_ok)
             known == DOMAIN dir_users
         IN  /\ mkdtemp_count' = IF p.created # 0 THEN mkdtemp_count + 1 ELSE mkdtemp_count
             /\ dirs' = IF p.created # 0 THEN dirs \cup {p.created} ELSE dirs
             /\ dir_users' =
                    IF p.created # 0
                    THEN [d \in known \cup {p.created} |->
                             (IF d \in known THEN dir_users[d] ELSE {})
                             \cup (IF d = p.created THEN {i} ELSE {})]
                    ELSE dir_users
             /\ cleanup_calls' =
                    IF p.created # 0
                    THEN [d \in known \cup {p.created} |->
                             IF d \in known THEN cleanup_calls[d] ELSE 0]
                    ELSE cleanup_calls
             /\ env_of' = [env_of EXCEPT ![i] = p.env.temp_dir]
             /\ prepare_exc' = [prepare_exc EXCEPT ![i] = p.text]
             /\ IF p.raised
                THEN /\ pc' = OnRaise
                     /\ exc' = p.text
                     /\ environment' = environment
                ELSE /\ pc' = "execute"
                     /\ exc' = exc
                     /\ environment' = p.env
    /\ UNCHANGED <<config, application, i, result, results, rmtree_failed, how>>

\* Lines 136-137 with PythonExecutor: result = execute_sample(...); append.
ExecutePython ==
    /\ pc = "execute"
    /\ language = "python"
    /\ result' = PyExecuteSample(i, analysis_table[samples[i]], FALSE, "")
    /\ results' = Append(results, result')
    /\ how' = Append(how, [NoHow EXCEPT !.by = "execute", !.run = "analysis",
                                        !.validated = PyCallsValidateSample])
    /\ pc' = "report"
    /\ UNCHANGED <<config, application, i, environment, exc, dirs, mkdtemp_count, sandbox_history,
                   cleanup_calls, rmtree_failed>>

\* Lines 136-137 with CSharpExecutor: result = execute_sample(...); append.
ExecuteCSharp ==
    /\ pc = "execute"
    /\ language = "csharp"
    /\ \E restore \in RestoreOutcomes, run \in RunOutcomes :
         /\ result' = CsExecuteSample(i, validation_table[samples[i]][validation_rules],
                                      restore, run)
         /\ how' = Append(how,
                [by |-> "execute", restore |-> restore,
                 run |-> IF restore = "error" THEN "none" ELSE run.kind,
                 returncode |-> IF restore = "error" THEN -1 ELSE run.returncode,
                 validation_raised |->
                     /\ restore # "error"
                     /\ run.kind = "exit"
                     /\ validation_table[samples[i]][validation_rules].raised,
                 validated |-> CsCallsValidateSample(restore, run)])
    /\ results' = Append(results, result')
    /\ pc' = "report"
    /\ UNCHANGED <<config, application, i, environment, exc, dirs, mkdtemp_count, sandbox_history,
                   cleanup_calls, rmtree_failed>>

\* Lines 139-166: print the outcome of the sample.
Report ==
    /\ pc = "report"
    /\ IF ReportRaises(language, result)
       THEN /\ pc' = OnRaise
            /\ exc' = "'bool' object is not iterable"
       ELSE /\ pc' = "cleanup"
            /\ exc' = exc
    /\ UNCHANGED <<config, application, i, environment, result, results, dirs, mkdtemp_count,
                   sandbox_history, cleanup_calls, rmtree_failed, how>>

\* Line 169: executor.cleanup_test_environment(environment), then the next
\* iteration.
Cleanup ==
    /\ pc = "cleanup"
    /\ \E rmtree_ok \in BOOLEAN :
         LET c == cleanup_test_environment(environment, dirs, rmtree_ok)
         IN  /\ dirs' = c.dirs
             /\ rmtree_failed' = IF environment.temp_dir \in c.dirs
                                 THEN rmtree_failed \cup {environment.temp_dir}
                                 ELSE rmtree_failed
             /\ IF c.raised
                THEN /\ pc' = OnRaise
                     /\ exc' = "rmtree failed"
                     /\ i' = i
                ELSE /\ pc' = "loop"
                     /\ exc' = exc
                     /\ i' = NextIndex(i)
    /\ cleanup_calls' = [cleanup_calls EXCEPT ![environment.temp_dir] = @ + 1]
    /\ UNCHANGED <<config, application, environment, result, results, mkdtemp_count, sandbox_history,
                   how>>

\* Lines 171-181: the handler appends a failed result, then the next
\* iteration.
Except ==
    /\ pc = "except"
    /\ result' = HandlerResult(i, exc)
    /\ results' = Append(results, result')
    /\ how' = Append(how, [NoHow EXCEPT !.by = "handler"])
    /\ pc' = "loop"
    /\ i' = NextIndex(i)
    /\ UNCHANGED <<config, application, environment, exc, dirs, mkdtemp_count, sandbox_history,
                   cleanup_calls, rmtree_failed>>

Next ==
    \/ Return
    \/ SkipSample
    \/ Prepare
    \/ ExecutePython
    \/ ExecuteCSharp
    \/ Report
    \/ Cleanup
    \/ Except

Spec == Init /\ [][Next]_vars

(***************************************************************************)
(* re.sub as the rewriters use it. A pattern is a sequence of atoms:       *)
(*   <<"lit", chars>>                  the characters themselves           *)
(*   <<"rep", class, min, max, greedy>> a repetition of one character of a *)
(*                                     class; max = -1: no upper limit     *)
(*   <<"alt", options>>                (?:a|b): the first option that fits  *)
(*   <<"bol">>, <<"eol">>, <<"wb">>     ^ and $ under re.MULTILINE, and \b  *)
(* A class is named by a string: "s", "d", "w" for \s, \d, \w; "." for any *)
(* character but a newline; "q" for a quote of either style; "^dq",        *)
(* "^sq", "^q", "^;" for any character but the one named; any other name   *)
(* stands for that one character. The matcher backtracks as re does: a     *)
(* greedy repetition tries the longest stretch first, a lazy one the       *)
(* shortest.                                                               *)
(***************************************************************************)

\* Does character c belong to the class?
InClass(c, class) ==
    LET word == {"a","b","c","d","e","f","g","h","i","j","k","l","m","n","o","p","q","r",
                 "s","t","u","v","w","x","y","z","A","B","C","D","E","F","G","H","I","J",
                 "K","L","M","N","O","P","Q","R","S","T","U","V","W","X","Y","Z","0","1",
                 "2","3","4","5","6","7","8","9","_"}
    IN  CASE class = "s" -> IsSpace(c)
          [] class = "d" -> c \in {"0","1","2","3","4","5","6","7","8","9"}
          [] class = "w" -> c \in word
          [] class = "." -> c # "\n"
          [] class = "q" -> c \in {"\"", "'"}
          [] class = "^dq" -> c # "\""
          [] class = "^sq" -> c # "'"
          [] class = "^q" -> c \notin {"\"", "'"}
          [] class = "^;" -> c # ";"
          [] OTHER -> c = class

\* The positions behind the stretches of text one atom can take from
\* position pos on, in the order the matcher tries them
Candidates(atom, text, pos) ==
    LET fits(chars) == /\ pos + Len(chars) - 1 <= Len(text)
                       /\ SubSeq(text, pos, pos + Len(chars) - 1) = chars
        isWord(p) == p >= 1 /\ p <= Len(text) /\ InClass(text[p], "w")
        \* the longest stretch of characters of the class, of limit at most
        stretch(limit) == CHOOSE n \in 0..limit :
                             /\ n = limit \/ ~InClass(text[pos + n], atom[2])
                             /\ \A k \in pos..(pos + n - 1) : InClass(text[k], atom[2])
        \* a greedy repetition gives back one character at a time, a lazy one
        \* takes one more at a time
        lengths(run) == IF run < atom[3] THEN <<>>
                        ELSE [k \in 1..(run - atom[3] + 1) |->
                                 pos + (IF atom[5] THEN run - k + 1 ELSE atom[3] + k - 1)]
        behind(options) == [k \in 1..Len(options) |-> pos + Len(options[k])]
    IN  CASE atom[1] = "lit" ->
               IF fits(atom[2]) THEN <<pos + Len(atom[2])>> ELSE <<>>
          [] atom[1] = "rep" ->
               lengths(stretch(IF atom[4] = -1 \/ atom[4] > Len(text) - pos + 1
                               THEN Len(text) - pos + 1 ELSE atom[4]))
          [] atom[1] = "alt" -> behind(SelectSeq(atom[2], fits))
          [] atom[1] = "bol" ->
               IF pos = 1 \/ text[pos - 1] = "\n" THEN <<pos>> ELSE <<>>
          [] atom[1] = "eol" ->
               IF pos = Len(text) + 1 \/ text[pos] = "\n" THEN <<pos>> ELSE <<>>
          [] atom[1] = "wb" ->
               IF isWord(pos - 1) # isWord(pos) THEN <<pos>> ELSE <<>>

\* pattern.match(text, pos): whether the atoms match from pos on, and the
\* position behind each atom in the match found
RECURSIVE Match(_, _, _)
RECURSIVE FirstMatch(_, _, _, _)
Match(atoms, text, pos) ==
    IF atoms = <<>> THEN [ok |-> TRUE, ends |-> <<>>]
    ELSE FirstMatch(Candidates(Head(atoms), text, pos), 1, Tail(atoms), text)

\* The first of the candidate positions, from number k on, from which the
\* rest of the atoms match
FirstMatch(cands, k, atoms, text) ==
    LET tried(m) == IF m.ok THEN [ok |-> TRUE, ends |-> <<cands[k]>> \o m.ends]
                    ELSE FirstMatch(cands, k + 1, atoms, text)
    IN  IF k > Len(cands) THEN [ok |-> FALSE, ends |-> <<>>]
        ELSE tried(Match(atoms, text, cands[k]))

\* The characters of ASCII from the blank (32) to the tilde (126)
ASCII ==
    <<" ","!","\"","#","$","%","&","'","(",")","*","+",",","-",".","/","0","1","2","3","4",
      "5","6","7","8","9",":",";","<","=",">","?","@","A","B","C","D","E","F","G","H","I",
      "J","K","L","M","N","O","P","Q","R","S","T","U","V","W","X","Y","Z","[","\\","]","^",
      "_","bq","a","b","c","d","e","f","g","h","i","j","k","l","m","n","o","p","q","r","s",
      "t","u","v","w","x","y","z","{","|","}","~">>

\* chr(n) for n in 0..255: a character outside ASCII[..], the tabulator, the
\* newline and the carriage return is written by its code point
Chr(n) ==
    LET hex == <<"0","1","2","3","4","5","6","7","8","9","A","B","C","D","E","F">>
    IN  IF n \in 32..126 THEN ASCII[n - 31]
        ELSE IF n = 9 THEN "\t"
        ELSE IF n = 10 THEN "\n"
        ELSE IF n = 13 THEN "\r"
        ELSE "U+00" \o hex[(n \div 16) + 1] \o hex[(n % 16) + 1]

\* int(c) of a digit
DigitValue(c) == (CHOOSE k \in 17..26 : ASCII[k] = c) - 17

\* The part of a parsed replacement string that stands for the whole match
\* (group 0)
WholeMatch == "\\g<0>"

\* int(name) == 0, as re reads the name of \g<name>: the blanks int() drops
\* around the name are the six of ASCII and the white space outside ASCII
\* (U+001C..U+001F are not among them), one sign "+" or "-" may lead, a
\* digit is "0" or a decimal zero of another script, and single underscores
\* may stand between digits
IsZeroLiteral(name) ==
    LET blank == {" ", "\t", "\n", "\r", "U+000B", "U+000C",
                  "U+0085", "U+00A0", "U+1680", "U+2000", "U+2001", "U+2002", "U+2003",
                  "U+2004", "U+2005", "U+2006", "U+2007", "U+2008", "U+2009", "U+200A",
                  "U+2028", "U+2029", "U+202F", "U+205F", "U+3000"}
        zero == {"0",
                 "U+0660", "U+06F0", "U+07C0", "U+0966", "U+09E6", "U+0A66", "U+0AE6", "U+0B66",
                 "U+0BE6", "U+0C66", "U+0CE6", "U+0D66", "U+0DE6", "U+0E50", "U+0ED0", "U+0F20",
                 "U+1040", "U+1090", "U+17E0", "U+1810", "U+1946", "U+19D0", "U+1A80", "U+1A90",
                 "U+1B50", "U+1BB0", "U+1C40", "U+1C50", "U+A620", "U+A8D0", "U+A900", "U+A9D0",
                 "U+A9F0", "U+AA50", "U+ABF0", "U+FF10", "U+104A0", "U+10D30", "U+11066",
                 "U+110F0", "U+11136", "U+111D0", "U+112F0", "U+11450", "U+114D0", "U+11650",
                 "U+116C0", "U+11730", "U+118E0", "U+11950", "U+11C50", "U+11D50", "U+11DA0",
                 "U+16A60", "U+16AC0", "U+16B50", "U+1D7CE", "U+1D7D8", "U+1D7E2", "U+1D7EC",
                 "U+1D7F6", "U+1E140", "U+1E2F0", "U+1E950", "U+1FBF0"}
        keep == {k \in 1..Len(name) : name[k] \notin blank}
        lo == CHOOSE k \in keep : \A m \in keep : k <= m
        hi == CHOOSE k \in keep : \A m \in keep : m <= k
        first == IF name[lo] \in {"+", "-"} THEN lo + 1 ELSE lo
    IN  /\ keep # {}
        /\ \A k \in lo..hi : k \in keep
        /\ first <= hi
        /\ name[first] \in zero
        /\ name[hi] \in zero
        /\ \A k \in first..hi : name[k] \in zero \cup {"_"}
        /\ \A k \in first..(hi - 1) : ~(name[k] = "_" /\ name[k + 1] = "_")

\* re._parser.parse_template(source, pattern) for a pattern without groups,
\* from position pos on: how re.sub reads a replacement string. A backslash
\* opens an escape: \g<0> is the whole match, \0 and three octal digits are
\* a character by its code, a digit otherwise refers to a group the pattern
\* does not have (re.error), \a \b \f \n \r \t \v \\ are the character they
\* name, another ASCII letter is a bad escape (re.error), and a backslash in
\* front of any other character stays with that character. The characters
\* in front of the first backslash (at) are taken as they are. parts holds
\* the characters of the replacement and WholeMatch where the match goes.
RECURSIVE parse_template(_, _)
parse_template(source, pos) ==
    LET octdigits == {"0", "1", "2", "3", "4", "5", "6", "7"}
        digits == octdigits \cup {"8", "9"}
        letters == {ASCII[k] : k \in (34..59) \cup (66..91)}
        escapes == [c \in {"a", "b", "f", "n", "r", "t", "v", "\\"} |->
                       CASE c = "a" -> Chr(7)
                         [] c = "b" -> Chr(8)
                         [] c = "f" -> Chr(12)
                         [] c = "n" -> Chr(10)
                         [] c = "r" -> Chr(13)
                         [] c = "t" -> Chr(9)
                         [] c = "v" -> Chr(11)
                         [] c = "\\" -> "\\"]
        slashes == {k \in pos..Len(source) : source[k] = "\\"}
        at == CHOOSE k \in slashes : \A m \in slashes : k <= m
        next(k) == IF k <= Len(source) THEN source[k] ELSE ""
        error == [raised |-> TRUE, parts |-> <<>>]
        then(parts, rest) ==
            IF rest.raised THEN error
            ELSE [raised |-> FALSE, parts |-> SubSeq(source, pos, at - 1) \o parts \o rest.parts]
        append(parts, k) == then(parts, parse_template(source, k))
        c == next(at + 1)
        closes == {k \in (at + 3)..Len(source) : source[k] = ">"}
        close == CHOOSE k \in closes : \A m \in closes : k <= m
        octal(chars) == IF Len(chars) = 1 THEN DigitValue(chars[1])
                        ELSE IF Len(chars) = 2
                        THEN 8 * DigitValue(chars[1]) + DigitValue(chars[2])
                        ELSE 64 * DigitValue(chars[1]) + 8 * DigitValue(chars[2])
                             + DigitValue(chars[3])
    IN  IF slashes = {} THEN [raised |-> FALSE, parts |-> SubSeq(source, pos, Len(source))]
        ELSE IF at = Len(source) THEN error
        ELSE IF c = "g"
        THEN IF next(at + 2) # "<" \/ closes = {} THEN error
             ELSE IF IsZeroLiteral(SubSeq(source, at + 3, close - 1))
             THEN append(<<WholeMatch>>, close + 1)
             ELSE error
        ELSE IF c = "0"
        THEN IF next(at + 2) \in octdigits /\ next(at + 3) \in octdigits
             THEN append(<<Chr(octal(SubSeq(source, at + 2, at + 3)))>>, at + 4)
             ELSE IF next(at + 2) \in octdigits
             THEN append(<<Chr(octal(SubSeq(source, at + 2, at + 2)))>>, at + 3)
             ELSE append(<<Chr(0)>>, at + 2)
        ELSE IF c \in digits
        THEN IF /\ c \in octdigits
                /\ next(at + 2) \in octdigits
                /\ next(at + 3) \in octdigits
                /\ octal(SubSeq(source, at + 1, at + 3)) <= 255
             THEN append(<<Chr(octal(SubSeq(source, at + 1, at + 3)))>>, at + 4)
             ELSE error
        ELSE IF c \in DOMAIN escapes THEN append(<<escapes[c]>>, at + 2)
        ELSE IF c \in letters THEN error
        ELSE append(<<"\\", c>>, at + 2)

\* The text a parsed replacement string gives for a match
RECURSIVE Expand(_, _)
Expand(parts, matched) ==
    LET marks == {k \in 1..Len(parts) : parts[k] = WholeMatch}
        first == CHOOSE k \in marks : \A m \in marks : k <= m
    IN  IF marks = {} THEN parts
        ELSE SubSeq(parts, 1, first - 1) \o matched
             \o Expand(SubSeq(parts, first + 1, Len(parts)), matched)

\* re.sub(pattern, repl, text) from position pos on, for a pattern that
\* matches no empty stretch: the leftmost match is replaced and the search
\* goes on behind it. repl is [pre, group, post]: the replacement is pre,
\* then the stretch atom number group took (none for group = 0), then post,
\* with the whole match wherever pre and post hold WholeMatch.
\* A match holds the characters of every "lit" atom of the pattern: where
\* one of them does not occur from pos on, no position is tried.
RECURSIVE ReSub(_, _, _, _)
ReSub(atoms, repl, text, pos) ==
    LET occurs(chars) == \E p \in pos..(Len(text) - Len(chars) + 1) :
                            SubSeq(text, p, p + Len(chars) - 1) = chars
        matches(m, p) == m.ok /\ m.ends[Len(atoms)] > p
        least(starts) == IF starts = {} THEN 0
                         ELSE CHOOSE p \in starts : \A q \in starts : p <= q
        taken(m, start) ==
            IF repl.group = 0 THEN <<>>
            ELSE SubSeq(text, IF repl.group = 1 THEN start ELSE m.ends[repl.group - 1],
                        m.ends[repl.group] - 1)
        whole(m, start) == SubSeq(text, start, m.ends[Len(atoms)] - 1)
        replaced(m, start) ==
            SubSeq(text, pos, start - 1) \o Expand(repl.pre, whole(m, start))
            \o taken(m, start) \o Expand(repl.post, whole(m, start))
            \o ReSub(atoms, repl, text, m.ends[Len(atoms)])
        from(start) == IF start = 0 THEN SubSeq(text, pos, Len(text))
                       ELSE replaced(Match(atoms, text, start), start)
    IN  from(least(IF \A k \in 1..Len(atoms) : atoms[k][1] = "lit" => occurs(atoms[k][2])
                   THEN {p \in pos..Len(text) : matches(Match(atoms, text, p), p)}
                   ELSE {}))

(***************************************************************************)
(* Functions of the executors called on their own: the loop is not         *)
(* running, call holds the function and its arguments, ret what it         *)
(* returned.                                                               *)
(***************************************************************************)

loop_state == <<pc, i, environment, result, exc, results, dirs, mkdtemp_count,
                env_of, dir_users, prepare_exc, cleanup_calls, rmtree_failed, how>>

\* run_language_tests has not been entered
LoopIdle ==
    /\ samples = <<>>
    /\ mocking_null = FALSE
    /\ pc = "idle"
    /\ i = 1
    /\ environment = NoEnv
    /\ result = NoResult
    /\ exc = ""
    /\ results = <<>>
    /\ dirs = {}
    /\ mkdtemp_count = 0
    /\ env_of = <<>>
    /\ dir_users = [d \in {} |-> {}]
    /\ prepare_exc = <<>>
    /\ cleanup_calls = [d \in {} |-> 0]
    /\ rmtree_failed = {}
    /\ how = <<>>

(***************************************************************************)
(* validate_sample on its own                                              *)
(***************************************************************************)

\* Longest list of validation rules of a language's configuration.
MaxRules == 2

\* The rules the lists are drawn from: expectation true, false and absent, a
\* pattern re cannot compile, and a name used by two rules.
RuleCatalogue ==
    { Rule("uses_client", PAT.DeepgramClient, "true"),
      Rule("no_placeholder_key", PAT.YOUR_API_KEY, "absent"),
      Rule("no_old_constructor",
           <<"d","g"," ","="," ","D","e","e","p","g","r","a","m">>, "false"),
      Rule("uses_client", PAT.await, "true"),
      Rule("bad_regex", <<"(">>, "false") }

\* The values get_validation_rules can return
RuleLists == UNION { [1..n -> RuleCatalogue] : n \in 0..MaxRules }

\* The texts of a language's samples
TextsOf(lang) == IF lang = "python" THEN PythonTexts ELSE CSharpTexts

ValidateInit ==
    /\ language \in {"python", "csharp"}
    /\ validation_rules \in RuleLists
    /\ call \in [fn : {"validate_sample"}, sample : TextsOf(language)]
    /\ ret = NoRet
    /\ LoopIdle

\* What a call of validate_sample leaves in ret
Returned(v) == [returned |-> TRUE, raised |-> v.raised, results |-> v.results]

\* PythonExecutor.validate_sample(sample)
ValidatePython ==
    /\ language = "python"
    /\ call.fn = "validate_sample"
    /\ ~ret.returned
    /\ ret' = Returned(validate_sample(Code(call.sample), validation_rules))
    /\ UNCHANGED <<config, call, loop_state>>

\* CSharpExecutor.validate_sample(sample)
ValidateCSharp ==
    /\ language = "csharp"
    /\ call.fn = "validate_sample"
    /\ ~ret.returned
    /\ ret' = Returned(validate_sample(Code(call.sample), validation_rules))
    /\ UNCHANGED <<config, call, loop_state>>

ValidateSpec == ValidateInit /\ [][ValidatePython \/ ValidateCSharp]_vars

(***************************************************************************)
(* extract_samples on its own: the documents are texts, the fenced blocks  *)
(* are found as re.finditer finds them.                                    *)
(***************************************************************************)

\* Most documents rglob("*.mdx") finds.
MaxDocs == 2

\* The least position >= from at which needle occurs in text, 0 when none
Find(text, needle, from) ==
    LET at == {k \in from..(Len(text) - Len(needle) + 1) :
                  SubSeq(text, k, k + Len(needle) - 1) = needle}
    IN  IF at = {} THEN 0 ELSE CHOOSE k \in at : \A m \in at : k <= m

\* re.finditer(python_block_pattern, content, re.DOTALL), from a position
\* on: match.start() and group(1) of each match, in order. The leftmost opener
\* starts the match, the first closer after it ends it, and the search goes
\* on behind the closer.
RECURSIVE PyFindBlocks(_, _)
PyFindBlocks(content, from) ==
    LET p1 == Find(content, FENCE.python, from)
        p2 == Find(content, FENCE.py, from)
        p == IF p1 = 0 THEN p2
             ELSE IF p2 = 0 THEN p1
             ELSE IF p1 < p2 THEN p1 ELSE p2
        s == p + (IF p = p1 THEN Len(FENCE.python) ELSE Len(FENCE.py))
        c == Find(content, FENCE.close, s)
    IN  IF p = 0 THEN <<>>
        ELSE IF c = 0 THEN <<>>
        ELSE <<[start |-> p, code |-> SubSeq(content, s, c - 1)]>>
             \o PyFindBlocks(content, c + Len(FENCE.close))

\* content[:match.start()].count('\n') + 1
LineNumber(content, start) ==
    Cardinality({k \in 1..(start - 1) : content[k] = "\n"}) + 1

\* The CodeSample built from a block: the fields the model follows
Sample(path, line_number, lang, sample_type, code) ==
    [file_path |-> path, line_number |-> line_number, language |-> lang,
     sample_type |-> sample_type, code |-> code,
     requires_audio_file |-> requires_audio_file(lang, code)]

\* PythonExecutor._extract_python_samples_for_analysis
_extract_python_samples_for_analysis(path, content) ==
    LET matches == SelectSeq(PyFindBlocks(content, 1),
                             LAMBDA m : PyExtractorKeeps(m.code))
    IN  [k \in 1..Len(matches) |->
            Sample(path, LineNumber(content, matches[k].start), "python",
                   "python_block", matches[k].code)]

\* CSharpExecutor._determine_sample_type
_determine_sample_type(code) ==
    LET \* "async " and "await "
        async == <<"a","s","y","n","c"," ">>
        await == <<"a","w","a","i","t"," ">>
        \* "class " and "public "
        class == <<"c","l","a","s","s"," ">>
        public == <<"p","u","b","l","i","c"," ">>
        \* "Controller", "WebApi" and "Console."
        controller == <<"C","o","n","t","r","o","l","l","e","r">>
        webapi == <<"W","e","b","A","p","i">>
        console == <<"C","o","n","s","o","l","e",".">>
    IN  IF Contains(code, async) /\ Contains(code, await) THEN "async"
        ELSE IF Contains(code, class) /\ Contains(code, public) THEN "class"
        ELSE IF Contains(code, controller) \/ Contains(code, webapi) THEN "web"
        ELSE IF Contains(code, console) THEN "console"
        ELSE "sync"

\* re.finditer(opener + r'[^\n]*\n(.*?)```', content, re.DOTALL), from a
\* position on: match.start() and group(1) of each match, in order
RECURSIVE CsFindBlocks(_, _, _)
CsFindBlocks(content, opener, from) ==
    LET p == Find(content, opener, from)
        nl == Find(content, <<"\n">>, p + Len(opener))
        c == Find(content, FENCE.mark, nl + 1)
    IN  IF p = 0 THEN <<>>
        ELSE IF nl = 0 THEN <<>>
        ELSE IF c = 0 THEN <<>>
        ELSE <<[start |-> p, code |-> SubSeq(content, nl + 1, c - 1)]>>
             \o CsFindBlocks(content, opener, c + Len(FENCE.mark))

\* code_block_patterns, in the order of the list
CsOpeners == <<FENCE.csharp, FENCE.cs, FENCE.c_sharp, FENCE.dotnet>>

\* The samples one pattern of code_block_patterns contributes
CsPatternSamples(path, content, opener) ==
    LET found == CsFindBlocks(content, opener, 1)
        kept == SelectSeq([k \in 1..Len(found) |->
                              [start |-> found[k].start, code |-> Strip(found[k].code)]],
                          LAMBDA m : ~CsShouldSkipCodeBlock(m.code))
    IN  [k \in 1..Len(kept) |->
            Sample(path, LineNumber(content, kept[k].start), "csharp",
                   _determine_sample_type(kept[k].code), kept[k].code)]

\* CSharpExecutor._extract_csharp_samples_from_content
_extract_csharp_samples_from_content(path, content) ==
    CsPatternSamples(path, content, CsOpeners[1])
    \o CsPatternSamples(path, content, CsOpeners[2])
    \o CsPatternSamples(path, content, CsOpeners[3])
    \o CsPatternSamples(path, content, CsOpeners[4])

\* A fenced block as it stands in a document
Block(opener, body) ==
    opener \o (IF opener \in {FENCE.python, FENCE.py} THEN <<>> ELSE <<"\n">>)
    \o body \o FENCE.close \o <<"\n">>

\* The documents the corpora are drawn from, by file name
DocNames == {"guide.mdx", "short.mdx", "comments.mdx", "noref.mdx", "audio.mdx",
             "console.mdx", "prose.mdx"}

Content(name) ==
    CASE name = "guide.mdx" ->
            BlockText.prose \o Block(FENCE.python, PyOldCtor) \o Block(FENCE.csharp, CsClient)
      [] name = "short.mdx" ->
            Block(FENCE.python, PyTiny) \o Block(FENCE.py, BlockText.short)
            \o Block(FENCE.cs, BlockText.short)
      [] name = "comments.mdx" ->
            Block(FENCE.py, PyComment) \o BlockText.prose \o Block(FENCE.csharp, BlockText.comment)
      [] name = "noref.mdx" ->
            Block(FENCE.python, PyGood) \o Block(FENCE.dotnet, BlockText.noref)
      [] name = "audio.mdx" ->
            Block(FENCE.python, PyAudio) \o Block(FENCE.c_sharp, CsAudio)
      [] name = "console.mdx" ->
            Block(FENCE.cs, BlockText.console) \o Block(FENCE.py, PyGood)
      [] name = "prose.mdx" -> BlockText.prose

\* What the extractor of each language makes of each document, computed once
file_samples_table ==
    [lang \in {"python", "csharp"} |->
        [name \in DocNames |->
            IF lang = "python"
            THEN _extract_python_samples_for_analysis(name, Content(name))
            ELSE _extract_csharp_samples_from_content(name, Content(name))]]

\* extract_samples without the try/except around a document: a document
\* that cannot be read ends the extraction.
RECURSIVE extract_samples_uncaught(_, _)
extract_samples_uncaught(lang, mdx_files) ==
    IF mdx_files = <<>> THEN [raised |-> FALSE, samples |-> <<>>]
    ELSE IF ~Head(mdx_files).readable THEN [raised |-> TRUE, samples |-> <<>>]
    ELSE LET rest == extract_samples_uncaught(lang, Tail(mdx_files))
         IN  [raised |-> rest.raised,
              samples |-> IF rest.raised THEN <<>>
                          ELSE file_samples_table[lang][Head(mdx_files).path]
                               \o rest.samples]

\* extract_samples of either executor: read_text raises for a document that
\* cannot be read (OSError, UnicodeDecodeError), the except branch prints a
\* warning and the loop goes on with the next document.
RECURSIVE extract_samples(_, _)
extract_samples(lang, mdx_files) ==
    IF mdx_files = <<>> THEN [raised |-> FALSE, samples |-> <<>>]
    ELSE LET rest == extract_samples(lang, Tail(mdx_files))
         IN  [raised |-> FALSE,
              samples |-> (IF Head(mdx_files).readable
                           THEN file_samples_table[lang][Head(mdx_files).path]
                           ELSE <<>>)
                          \o rest.samples]

\* The lists of files rglob can return: each file once, readable or not
Corpora ==
    { c \in UNION { [1..n -> [path : DocNames, readable : BOOLEAN]] : n \in 0..MaxDocs } :
        \A a, b \in 1..Len(c) : c[a].path = c[b].path => a = b }

ExtractInit ==
    /\ language \in {"python", "csharp"}
    /\ validation_rules = <<>>
    /\ call \in [fn : {"extract_samples"}, mdx_files : Corpora]
    /\ ret = NoRet
    /\ LoopIdle

\* What a call of extract_samples leaves in ret
Extracted(e) == [returned |-> TRUE, raised |-> e.raised, samples |-> e.samples]

\* PythonExecutor.extract_samples(documentation_path)
ExtractPython ==
    /\ language = "python"
    /\ call.fn = "extract_samples"
    /\ ~ret.returned
    /\ ret' = Extracted(extract_samples("python", call.mdx_files))
    /\ UNCHANGED <<config, call, loop_state>>

\* CSharpExecutor.extract_samples(documentation_path)
ExtractCSharp ==
    /\ language = "csharp"
    /\ call.fn = "extract_samples"
    /\ ~ret.returned
    /\ ret' = Extracted(extract_samples("csharp", call.mdx_files))
    /\ UNCHANGED <<config, call, loop_state>>

ExtractSpec == ExtractInit /\ [][ExtractPython \/ ExtractCSharp]_vars

(***************************************************************************)
(* PythonExecutor.execute_sample on its own, over texts put together from  *)
(* lines that the analyzer's checks react to.                              *)
(***************************************************************************)

\* Most lines of a sample text.
MaxLines == 3

\* The lines the texts are made of
SampleLines ==
    { PAT.from_deepgram_import_Deepgram, PAT.from_deepgram_import_DeepgramClient,
      PyOldCtor, PAT.import_os,
      \* 'load_dotenv()'
      <<"l","o","a","d","_","d","o","t","e","n","v","(",")">>,
      \* 'client = AsyncDeepgramClient()'
      <<"c","l","i","e","n","t"," ","="," ","A","s","y","n","c","D","e","e","p","g","r","a","m",
      "C","l","i","e","n","t","(",")">>,
      \* "key = os.getenv('DG_KEY')"
      <<"k","e","y"," ","="," ","o","s",".","g","e","t","e","n","v","(","'","D","G","_","K","E",
      "Y","'",")">> }

\* '\n'.join(lines)
RECURSIVE JoinLines(_)
JoinLines(lines) ==
    IF lines = <<>> THEN <<>>
    ELSE IF Len(lines) = 1 THEN lines[1]
    ELSE lines[1] \o <<"\n">> \o JoinLines(Tail(lines))

\* The texts of the samples analysed
AnalysisTexts ==
    { JoinLines(lines) : lines \in UNION { [1..n -> SampleLines] : n \in 1..MaxLines } }

AnalyzeInit ==
    /\ language = "python"
    /\ validation_rules = <<>>
    /\ call \in [fn : {"execute_sample"}, code : AnalysisTexts]
    /\ ret = NoRet
    /\ LoopIdle

\* PythonExecutor.execute_sample(sample, environment)
AnalyzePython ==
    /\ call.fn = "execute_sample"
    /\ ~ret.returned
    /\ ret' = [returned |-> TRUE,
               result |-> PyExecuteSample(1, _analyze_sample(call.code), FALSE, "")]
    /\ UNCHANGED <<config, call, loop_state>>

AnalyzeSpec == AnalyzeInit /\ [][AnalyzePython]_vars

(***************************************************************************)
(* _prepare_code_for_execution on its own. RewriteSpec rewrites texts put   *)
(* together from quotes, the placeholder key, an audio extension and a     *)
(* backslash; PrepareSpec rewrites texts made of whole lines of code and   *)
(* builds the Python test script; WrapSpec runs the loop of                *)
(* _wrap_executable_code one iteration at a time. In the texts of the      *)
(* generated programs a character outside ASCII is written by its name     *)
(* ("check_mark", "cross_mark") or its code point ("U+00E2").              *)
(***************************************************************************)

\* Most pieces of a text.
MaxTokens == 5

\* The pieces the texts are made of
Tokens == { <<"\"">>, <<"'">>, PAT.YOUR_API_KEY, PAT.audio, PAT.wav, <<"\\">> }

RECURSIVE Concat(_)
Concat(pieces) ==
    IF pieces = <<>> THEN <<>> ELSE Head(pieces) \o Concat(Tail(pieces))

\* The texts of the samples rewritten
RewriteTexts ==
    { Concat(pieces) : pieces \in UNION { [1..n -> Tokens] : n \in 0..MaxTokens } }

\* re.sub(pattern, repl, text) for a pattern without metacharacters: the
\* occurrences are replaced from the left, the search going on behind each
\* occurrence replaced
RECURSIVE ReplaceAll(_, _, _)
ReplaceAll(text, pattern, repl) ==
    LET p == Find(text, pattern, 1)
    IN  IF p = 0 THEN text
        ELSE SubSeq(text, 1, p - 1) \o repl
             \o ReplaceAll(SubSeq(text, p + Len(pattern), Len(text)), pattern, repl)

\* The replacement of the placeholder API key, in both quoting styles
\* (python executor lines 588-589, csharp executor lines 332-333)
ReplacePlaceholderKeys(code) ==
    LET \* '"test_api_key"'
        test_dq == <<"\"","t","e","s","t","_","a","p","i","_","k","e","y","\"">>
        \* "'test_api_key'"
        test_sq == <<"'","t","e","s","t","_","a","p","i","_","k","e","y","'">>
    IN  ReplaceAll(ReplaceAll(code, PAT.YOUR_API_KEY_dq, test_dq),
                   PAT.YOUR_API_KEY_sq, test_sq)

\* The extensions in the audio patterns of each rewriter
AudioExtensions(lang) ==
    IF lang = "python"
    THEN { <<"w","a","v">>, <<"m","p","3">>, <<"m","4","a">>, <<"f","l","a","c">>,
           <<"o","p","u","s">> }
    ELSE { <<"w","a","v">>, <<"m","p","3">>, <<"m","4","a">> }

\* Where the match of the Python pattern  q[^q]*\.(?:wav|...)q  that starts at
\* p ends, 0 when there is none: the text up to the first quote behind p has
\* to end in a dot and an extension.
PyAudioMatchEnd(text, q, p) ==
    LET e == Find(text, <<q>>, p + 1)
    IN  IF text[p] # q THEN 0
        ELSE IF e = 0 THEN 0
        ELSE IF \E ext \in AudioExtensions("python") :
                    /\ e - Len(ext) - 1 > p
                    /\ SubSeq(text, e - Len(ext) - 1, e - 1) = <<".">> \o ext
             THEN e
        ELSE 0

\* Where the match of the C# pattern, written r'q[^q]*\\.(?:wav|mp3|m4a)q',
\* that starts at p ends, 0 when there is none. In the raw string \\ is a
\* backslash and the dot behind it any character but a newline: a stretch
\* without quotes, a backslash, one character, an extension, the quote; the
\* longest stretch wins.
CsAudioMatchEnd(text, q, p) ==
    LET ends == {e \in (p + 1)..Len(text) :
                    /\ text[e] = q
                    /\ \E ext \in AudioExtensions("csharp") :
                          /\ e - Len(ext) - 2 > p
                          /\ SubSeq(text, e - Len(ext), e - 1) = ext
                          /\ text[e - Len(ext) - 1] # "\n"
                          /\ text[e - Len(ext) - 2] = "\\"
                          /\ \A k \in (p + 1)..(e - Len(ext) - 3) : text[k] # q}
    IN  IF text[p] # q THEN 0
        ELSE IF ends = {} THEN 0
        ELSE CHOOSE e \in ends : \A m \in ends : m <= e

AudioMatchEnd(lang, text, q, p) ==
    IF lang = "python" THEN PyAudioMatchEnd(text, q, p) ELSE CsAudioMatchEnd(text, q, p)

\* re.sub of the audio pattern with quote q: from position from on, the
\* leftmost match is replaced and the search goes on behind it. repl is the
\* replacement string as parse_template left it.
RECURSIVE SubAudio(_, _, _, _, _)
SubAudio(lang, text, q, repl, from) ==
    LET starts == {p \in from..Len(text) : AudioMatchEnd(lang, text, q, p) # 0}
        p == CHOOSE s \in starts : \A m \in starts : s <= m
    IN  IF starts = {} THEN SubSeq(text, from, Len(text))
        ELSE SubSeq(text, from, p - 1)
             \o Expand(repl, SubSeq(text, p, AudioMatchEnd(lang, text, q, p)))
             \o SubAudio(lang, text, q, repl, AudioMatchEnd(lang, text, q, p) + 1)

\* A replacement string without a reference to a group of the pattern
Plain(chars) == [pre |-> chars, group |-> 0, post |-> <<>>]

\* A row of re.sub calls, each on the text the one before it returned; a
\* rule is a pattern and its replacement. No pattern here matches an empty
\* stretch, so an empty text stays empty.
RECURSIVE SubEach(_, _)
SubEach(rules, text) ==
    IF rules = <<>> \/ text = <<>> THEN text
    ELSE SubEach(Tail(rules), ReSub(rules[1][1], rules[1][2], text, 1))

\* PythonExecutor._fix_indentation: textwrap.dedent(code).strip(). dedent
\* empties the lines made of blanks and tabs only, takes the longest common
\* prefix of the leading blanks and tabs of the other lines as the margin,
\* and removes the margin from the start of every line that begins with it.
_fix_indentation(code) ==
    LET lines == SplitLines(code)
        blank(l) == \A k \in 1..Len(l) : l[k] \in {" ", "\t"}
        text == [k \in 1..Len(lines) |-> IF blank(lines[k]) THEN <<>> ELSE lines[k]]
        indent(l) == CHOOSE n \in 0..Len(l) :
                        /\ \A k \in 1..n : l[k] \in {" ", "\t"}
                        /\ n = Len(l) \/ l[n + 1] \notin {" ", "\t"}
        indented == {k \in 1..Len(text) : text[k] # <<>>}
        common(n) == \A a, b \in indented :
                        /\ n <= indent(text[a])
                        /\ SubSeq(text[a], 1, n) = SubSeq(text[b], 1, n)
        width == IF indented = {} THEN 0
                 ELSE CHOOSE n \in 0..Len(code) :
                         common(n) /\ \A m \in (n + 1)..Len(code) : ~common(m)
        dedented == [k \in 1..Len(text) |->
                        IF k \in indented
                        THEN SubSeq(text[k], width + 1, Len(text[k])) ELSE text[k]]
    IN  Strip(JoinLines(dedented))

\* PythonExecutor._replace_blocking_operations
_replace_blocking_operations(code) ==
    LET any == -1
        \* r'\binput\(\s*\)'
        input_empty ==
            << << <<"wb">>, <<"lit", <<"i","n","p","u","t","(">>>>, <<"rep", "s", 0, any, TRUE>>,
                  <<"lit", <<")">>>> >>,
               Plain(<<"\"","t","e","s","t","_","i","n","p","u","t","\"">>) >>
        \* r'\binput\(\s*["\'][^"\']*["\']\s*\)'
        input_prompt ==
            << << <<"wb">>, <<"lit", <<"i","n","p","u","t","(">>>>, <<"rep", "s", 0, any, TRUE>>,
                  <<"rep", "q", 1, 1, TRUE>>, <<"rep", "^q", 0, any, TRUE>>,
                  <<"rep", "q", 1, 1, TRUE>>, <<"rep", "s", 0, any, TRUE>>,
                  <<"lit", <<")">>>> >>,
               Plain(<<"\"","t","e","s","t","_","i","n","p","u","t","\"">>) >>
        \* r'^(\s*)while\s+True\s*:\s*$' with re.MULTILINE, r'\1for _ in range(3):'
        while_true ==
            << << <<"bol">>, <<"rep", "s", 0, any, TRUE>>, <<"lit", <<"w","h","i","l","e">>>>,
                  <<"rep", "s", 1, any, TRUE>>, <<"lit", <<"T","r","u","e">>>>,
                  <<"rep", "s", 0, any, TRUE>>, <<"lit", <<":">>>>,
                  <<"rep", "s", 0, any, TRUE>>, <<"eol">> >>,
               [pre |-> <<>>, group |-> 2, post |-> <<"f","o","r"," ","_"," ","i","n"," ","r",
                     "a","n","g","e","(","3",")",":">>] >>
        \* r'time\.sleep\(\s*\d+\s*\)'
        sleep_whole ==
            << << <<"lit", <<"t","i","m","e",".","s","l","e","e","p","(">>>>, <<"rep", "s", 0, any, TRUE>>,
                  <<"rep", "d", 1, any, TRUE>>, <<"rep", "s", 0, any, TRUE>>,
                  <<"lit", <<")">>>> >>,
               Plain(<<"t","i","m","e",".","s","l","e","e","p","(","0",".","1",")">>) >>
        \* r'time\.sleep\(\s*\d*\.\d+\s*\)'
        sleep_fraction ==
            << << <<"lit", <<"t","i","m","e",".","s","l","e","e","p","(">>>>, <<"rep", "s", 0, any, TRUE>>,
                  <<"rep", "d", 0, any, TRUE>>, <<"lit", <<".">>>>,
                  <<"rep", "d", 1, any, TRUE>>, <<"rep", "s", 0, any, TRUE>>,
                  <<"lit", <<")">>>> >>,
               Plain(<<"t","i","m","e",".","s","l","e","e","p","(","0",".","1",")">>) >>
        \* r'(\w+)\.start_listening\(\)'
        start_listening ==
            << << <<"rep", "w", 1, any, TRUE>>, <<"lit", <<".","s","t","a","r","t","_","l","i",
                  "s","t","e","n","i","n","g","(",")">>>> >>,
               [pre |-> <<"p","a","s","s"," "," ","#"," ">>, group |-> 1,
                post |-> <<".","s","t","a","r","t","_","l","i","s","t","e","n","i","n","g","(",
                      ")"," ","-"," ","s","k","i","p","p","e","d"," ","i","n"," ","t","e","s",
                      "t","s">>] >>
        \* r'(\w+)\.connect\(\)'
        connect ==
            << << <<"rep", "w", 1, any, TRUE>>, <<"lit", <<".","c","o","n","n","e","c","t","(",
                  ")">>>> >>,
               [pre |-> <<"p","a","s","s"," "," ","#"," ">>, group |-> 1,
                post |-> <<".","c","o","n","n","e","c","t","(",")"," ","-"," ","s","k","i","p",
                      "p","e","d"," ","i","n"," ","t","e","s","t","s">>] >>
        \* r'(\w+)\.listen\.v1\.media\.transcribe_url\('
        transcribe_url ==
            << << <<"rep", "w", 1, any, TRUE>>,
                  <<"lit", <<".","l","i","s","t","e","n",".","v","1",".","m","e","d","i","a",
                        ".","t","r","a","n","s","c","r","i","b","e","_","u","r","l","(">>>> >>,
               [pre |-> <<"#"," ">>, group |-> 1,
                post |-> <<".","l","i","s","t","e","n",".","v","1",".","m","e","d","i","a",".",
                      "t","r","a","n","s","c","r","i","b","e","_","u","r","l","("," ","-"," ",
                      "m","o","c","k","e","d","\n","p","r","i","n","t","(","\"","M","o","c","k",
                      " ","t","r","a","n","s","c","r","i","p","t","i","o","n"," ","r","e","s",
                      "u","l","t","\"",")",";"," ","r","e","s","p","o","n","s","e"," ","="," ",
                      "t","y","p","e","(","\"","o","b","j","\"",","," ","(","o","b","j","e","c",
                      "t",",",")",","," ","{","\"","t","o","_","d","i","c","t","\"",":"," ","l",
                      "a","m","b","d","a",":"," ","{","\"","r","e","s","u","l","t","s","\"",":",
                      " ","{","\"","c","h","a","n","n","e","l","s","\"",":"," ","[","{","\"",
                      "a","l","t","e","r","n","a","t","i","v","e","s","\"",":"," ","[","{","\"",
                      "t","r","a","n","s","c","r","i","p","t","\"",":"," ","\"","M","o","c","k",
                      " ","t","r","a","n","s","c","r","i","p","t","i","o","n","\"","}","]","}",
                      "]","}","}","}",")","(",")",";"," ">>] >>
        \* r'with open\(["\'][^"\']+["\']\s*,\s*["\']w[b]?["\']\)'
        open_for_writing ==
            << << <<"lit", <<"w","i","t","h"," ","o","p","e","n","(">>>>, <<"rep", "q", 1, 1, TRUE>>,
                  <<"rep", "^q", 1, any, TRUE>>, <<"rep", "q", 1, 1, TRUE>>,
                  <<"rep", "s", 0, any, TRUE>>, <<"lit", <<",">>>>,
                  <<"rep", "s", 0, any, TRUE>>, <<"rep", "q", 1, 1, TRUE>>,
                  <<"lit", <<"w">>>>, <<"rep", "b", 0, 1, TRUE>>,
                  <<"rep", "q", 1, 1, TRUE>>, <<"lit", <<")">>>> >>,
               Plain(<<"w","i","t","h"," ","o","p","e","n","(","\"","/","t","m","p","/","m","o",
                     "c","k","_","f","i","l","e",".","t","m","p","\"",","," ","\"","w","\"",")">>) >>
    IN  SubEach(<<input_empty, input_prompt, while_true, sleep_whole, sleep_fraction,
                  start_listening, connect, transcribe_url, open_for_writing>>, code)

\* PythonExecutor._add_missing_imports
_add_missing_imports(code) ==
    LET has(chars) == Contains(code, chars)
        imports_to_add ==
            When(has(<<"t","i","m","e",".","s","l","e","e","p">>) /\ ~has(<<"i","m","p","o","r",
                  "t"," ","t","i","m","e">>), <<"i","m","p","o","r","t"," ","t","i","m","e">>)
            \o When((has(<<"o","s",".","g","e","t","e","n","v">>) \/ has(<<"o","s",".","e","n",
                  "v","i","r","o","n">>)) /\ ~has(<<"i","m","p","o","r","t"," ","o","s">>),
                    <<"i","m","p","o","r","t"," ","o","s">>)
            \o When(has(<<"P","a","t","h","(">>) /\ ~has(<<"f","r","o","m"," ","p","a","t","h",
                  "l","i","b"," ","i","m","p","o","r","t"," ","P","a","t","h">>),
                    <<"f","r","o","m"," ","p","a","t","h","l","i","b"," ","i","m","p","o","r",
                      "t"," ","P","a","t","h">>)
            \o When(has(<<"r","e",".">>) /\ ~has(<<"i","m","p","o","r","t"," ","r","e">>), <<
                  "i","m","p","o","r","t"," ","r","e">>)
        optional_imports ==
            When(has(<<"l","o","a","d","_","d","o","t","e","n","v">>) /\ ~has(<<"f","r","o","m",
                  " ","d","o","t","e","n","v"," ","i","m","p","o","r","t">>),
                 <<"t","r","y",":","\n"," "," "," "," ","f","r","o","m"," ","d","o","t","e","n",
                   "v"," ","i","m","p","o","r","t"," ","l","o","a","d","_","d","o","t","e","n",
                   "v","\n","e","x","c","e","p","t"," ","I","m","p","o","r","t","E","r","r","o",
                   "r",":","\n"," "," "," "," ","d","e","f"," ","l","o","a","d","_","d","o","t",
                   "e","n","v","(","*","a","r","g","s",","," ","*","*","k","w","a","r","g","s",
                   ")",":","\n"," "," "," "," "," "," "," "," ","p","a","s","s"," "," ","#"," ",
                   "M","o","c","k"," ","i","m","p","l","e","m","e","n","t","a","t","i","o","n",
                   " ","f","o","r"," ","t","e","s","t","i","n","g">>)
            \o When(has(<<"r","e","q","u","e","s","t","s",".">>) /\ ~has(<<"i","m","p","o","r",
                  "t"," ","r","e","q","u","e","s","t","s">>),
                    <<"t","r","y",":","\n"," "," "," "," ","i","m","p","o","r","t"," ","r","e",
                      "q","u","e","s","t","s","\n","e","x","c","e","p","t"," ","I","m","p","o",
                      "r","t","E","r","r","o","r",":","\n"," "," "," "," ","c","l","a","s","s",
                      " ","M","o","c","k","R","e","q","u","e","s","t","s",":","\n"," "," "," ",
                      " "," "," "," "," ","@","s","t","a","t","i","c","m","e","t","h","o","d",
                      "\n"," "," "," "," "," "," "," "," ","d","e","f"," ","g","e","t","(","*",
                      "a","r","g","s",","," ","*","*","k","w","a","r","g","s",")",":","\n"," ",
                      " "," "," "," "," "," "," "," "," "," "," ","c","l","a","s","s"," ","M",
                      "o","c","k","R","e","s","p","o","n","s","e",":","\n"," "," "," "," "," ",
                      " "," "," "," "," "," "," "," "," "," "," ","s","t","a","t","u","s","_",
                      "c","o","d","e"," ","="," ","2","0","0","\n"," "," "," "," "," "," "," ",
                      " "," "," "," "," "," "," "," "," ","d","e","f"," ","j","s","o","n","(",
                      "s","e","l","f",")",":"," ","r","e","t","u","r","n"," ","{","\"","m","o",
                      "c","k","\"",":"," ","\"","d","a","t","a","\"","}","\n"," "," "," "," ",
                      " "," "," "," "," "," "," "," "," "," "," "," ","d","e","f"," ","r","a",
                      "i","s","e","_","f","o","r","_","s","t","a","t","u","s","(","s","e","l",
                      "f",")",":"," ","p","a","s","s","\n"," "," "," "," "," "," "," "," "," ",
                      " "," "," ","r","e","t","u","r","n"," ","M","o","c","k","R","e","s","p",
                      "o","n","s","e","(",")","\n"," "," "," "," ","r","e","q","u","e","s","t",
                      "s"," ","="," ","M","o","c","k","R","e","q","u","e","s","t","s","(",")">>)
            \o When(has(<<"d","e","e","p","g","r","a","m",".","u","t","i","l","s">>),
                    <<"t","r","y",":","\n"," "," "," "," ","f","r","o","m"," ","d","e","e","p",
                      "g","r","a","m",".","u","t","i","l","s"," ","i","m","p","o","r","t"," ",
                      "v","e","r","b","o","s","e","l","o","g","s","\n","e","x","c","e","p","t",
                      " ","I","m","p","o","r","t","E","r","r","o","r",":","\n"," "," "," "," ",
                      "c","l","a","s","s"," ","M","o","c","k","V","e","r","b","o","s","e","L",
                      "o","g","s",":","\n"," "," "," "," "," "," "," "," ","@","s","t","a","t",
                      "i","c","m","e","t","h","o","d","\n"," "," "," "," "," "," "," "," ","d",
                      "e","f"," ","i","n","f","o","(","*","a","r","g","s",")",":"," ","p","a",
                      "s","s","\n"," "," "," "," "," "," "," "," ","@","s","t","a","t","i","c",
                      "m","e","t","h","o","d","\n"," "," "," "," "," "," "," "," ","d","e","f",
                      " ","d","e","b","u","g","(","*","a","r","g","s",")",":"," ","p","a","s",
                      "s","\n"," "," "," "," ","v","e","r","b","o","s","e","l","o","g","s"," ",
                      "="," ","M","o","c","k","V","e","r","b","o","s","e","L","o","g","s","(",
                      ")">>)
        all_imports == imports_to_add \o optional_imports
    IN  IF all_imports # <<>>
        THEN JoinLines(all_imports) \o <<"\n", "\n">> \o code
        ELSE code

\* PythonExecutor._wrap_executable_code, before its loop: lines, the two
\* groups, the index i (the model counts from 1), and the lines of the
\* definition being collected by the inner loop
WrapStart(code) ==
    [lines |-> SplitLines(code), i |-> 1, definitions |-> <<>>,
     executable_lines |-> <<>>, def_lines |-> <<>>, collecting |-> FALSE]

\* The condition of the outer loop alone
WrapRunningOuterOnly(w) == w.i <= Len(w.lines)

\* Is the loop of _wrap_executable_code (the outer while, or the inner one
\* when a definition is being collected) still running?
WrapRunning(w) == w.collecting \/ w.i <= Len(w.lines)

\* One iteration of the loops of _wrap_executable_code: of the inner while
\* (lines 657-659, and line 661 when it ends) when a definition is being
\* collected, of the outer while (lines 649-674) otherwise
WrapIteration(w) ==
    LET line == w.lines[w.i]
        stripped == Strip(line)
        starts(chars) == StartsWith(stripped, chars)
    IN  IF w.collecting
        THEN IF w.i <= Len(w.lines) /\ (StartsWith(line, <<" ">>) \/ stripped = <<>>)
             THEN [w EXCEPT !.def_lines = Append(@, line), !.i = @ + 1]
             ELSE [w EXCEPT !.definitions = @ \o w.def_lines, !.def_lines = <<>>,
                            !.collecting = FALSE]
        ELSE IF (starts(<<"d","e","f"," ">>) \/ starts(<<"c","l","a","s","s"," ">>)) /\ ~StartsWith(line, <<" ">>)
        THEN [w EXCEPT !.def_lines = <<line>>, !.i = @ + 1, !.collecting = TRUE]
        ELSE IF /\ stripped # <<>>
                /\ ~starts(<<"#">>)
                /\ ~starts(<<"i","m","p","o","r","t">>)
                /\ ~starts(<<"f","r","o","m"," ">>)
        THEN [w EXCEPT !.executable_lines = Append(@, line), !.i = @ + 1]
        ELSE IF starts(<<"i","m","p","o","r","t">>) \/ starts(<<"f","r","o","m"," ">>) \/ stripped = <<>>
        THEN [w EXCEPT !.definitions = Append(@, line), !.i = @ + 1]
        ELSE [w EXCEPT !.executable_lines = Append(@, line), !.i = @ + 1]

\* _wrap_executable_code behind its loop (lines 676-685): the text returned
WrapResult(w) ==
    LET joined == JoinLines(w.definitions)
    IN  IF w.executable_lines # <<>>
        THEN joined
             \o (IF Strip(joined) # <<>> THEN <<"\n", "\n">> ELSE <<>>)
             \o <<"#"," ","E","x","e","c","u","t","e"," ","t","h","e"," ","m","a","i","n"," ",
                   "l","o","g","i","c","\n">>
             \o JoinLines(w.executable_lines)
        ELSE joined

\* PythonExecutor._wrap_executable_code
RECURSIVE WrapLoop(_)
WrapLoop(w) == IF WrapRunning(w) THEN WrapLoop(WrapIteration(w)) ELSE w

_wrap_executable_code(code) == WrapResult(WrapLoop(WrapStart(code)))

\* PythonExecutor._handle_function_definitions
_handle_function_definitions(code) ==
    LET lines == SplitLines(code)
        top(chars) == \E k \in 1..Len(lines) :
                         /\ StartsWith(Strip(lines[k]), chars)
                         /\ ~StartsWith(lines[k], <<" ">>)
        has_top_level_functions == top(<<"d","e","f"," ">>)
        has_top_level_classes == top(<<"c","l","a","s","s"," ">>)
    IN  IF has_top_level_functions \/ has_top_level_classes
        THEN _wrap_executable_code(code)
        ELSE code

\* _indent_code of either executor
_indent_code(code, indent) ==
    LET lines == SplitLines(code)
        blanks == [k \in 1..indent |-> " "]
    IN  JoinLines([k \in 1..Len(lines) |->
                      IF Strip(lines[k]) # <<>> THEN blanks \o lines[k] ELSE lines[k]])


\* PythonExecutor._replace_audio_file_paths(code, mock_path): four re.sub
\* calls whose replacement string holds mock_path as it is, so that re reads
\* the backslashes of the path as escapes: a path with a bad escape raises
\* re.error out of the first call, before any text is searched. The C#
\* rewriter has the two quoted patterns only and doubles the backslashes of
\* the path first (csharp executor lines 337-339).
_replace_audio_file_paths(lang, code, mock_path) ==
    LET any == -1
        path == IF lang = "python" THEN mock_path
                ELSE ReplaceAll(mock_path, <<"\\">>, <<"\\", "\\">>)
        template(pre, post) == parse_template(pre \o path \o post, 1)
        dq == template(<<"\"">>, <<"\"">>)
        sq == template(<<"'">>, <<"'">>)
        quoted == SubAudio(lang, SubAudio(lang, code, "\"", dq.parts, 1), "'", sq.parts, 1)
        \* r'NAME\s*=\s*["\'][^"\']+["\']'
        assigned(name) == << <<"lit", name>>, <<"rep", "s", 0, any, TRUE>>, <<"lit", <<"=">> >>,
                             <<"rep", "s", 0, any, TRUE>>, <<"rep", "q", 1, 1, TRUE>>,
                             <<"rep", "^q", 1, any, TRUE>>, <<"rep", "q", 1, 1, TRUE>> >>
        to_mock(name) == template(name \o <<" ","="," ","\"">>, <<"\"">>)
        rule(name) == <<assigned(name), Plain(to_mock(name).parts)>>
        raised == \/ dq.raised
                  \/ sq.raised
                  \/ lang = "python" /\ to_mock(<<"a","u","d","i","o","_","f","i","l","e">>).raised
                  \/ lang = "python" /\ to_mock(<<"f","i","l","e","_","p","a","t","h">>).raised
    IN  IF raised THEN [raised |-> TRUE, code |-> <<>>]
        ELSE [raised |-> FALSE,
              code |-> IF lang = "python"
                       THEN SubEach(<<rule(<<"a","u","d","i","o","_","f","i","l","e">>), rule(<<
                             "f","i","l","e","_","p","a","t","h">>)>>, quoted)
                       ELSE quoted]

\* CSharpExecutor._extract_imports: re.findall(r'^using\s+[^;]+;', code,
\* re.MULTILINE) from position pos on
RECURSIVE _extract_imports(_, _)
_extract_imports(code, pos) ==
    LET using_pattern == << <<"bol">>, <<"lit", <<"u","s","i","n","g">>>>, <<"rep", "s", 1, -1, TRUE>>,
                            <<"rep", "^;", 1, -1, TRUE>>, <<"lit", <<";">> >> >>
        starts == {p \in pos..Len(code) : Match(using_pattern, code, p).ok}
        start == CHOOSE p \in starts : \A q \in starts : p <= q
        end == Match(using_pattern, code, start).ends[5]
    IN  IF starts = {} THEN <<>>
        ELSE <<SubSeq(code, start, end - 1)>> \o _extract_imports(code, end)

\* The Main method the C# rewriter puts around a text without one (csharp
\* executor lines 360-405)
WrapInMain(code) ==
    LET async_head == <<"\n","u","s","i","n","g"," ","S","y","s","t","e","m",";","\n","u","s",
          "i","n","g"," ","S","y","s","t","e","m",".","T","h","r","e","a","d","i","n","g",".",
          "T","a","s","k","s",";","\n","u","s","i","n","g"," ","D","e","e","p","g","r","a","m",
          ";","\n","\n","c","l","a","s","s"," ","P","r","o","g","r","a","m","\n","{","\n"," ",
          " "," "," ","s","t","a","t","i","c"," ","a","s","y","n","c"," ","T","a","s","k"," ",
          "M","a","i","n","(","s","t","r","i","n","g","[","]"," ","a","r","g","s",")","\n"," ",
          " "," "," ","{","\n"," "," "," "," "," "," "," "," ","t","r","y","\n"," "," "," "," ",
          " "," "," "," ","{","\n">>
        sync_head == <<"\n","u","s","i","n","g"," ","S","y","s","t","e","m",";","\n","u","s",
              "i","n","g"," ","D","e","e","p","g","r","a","m",";","\n","\n","c","l","a","s","s",
              " ","P","r","o","g","r","a","m","\n","{","\n"," "," "," "," ","s","t","a","t","i",
              "c"," ","v","o","i","d"," ","M","a","i","n","(","s","t","r","i","n","g","[","]",
              " ","a","r","g","s",")","\n"," "," "," "," ","{","\n"," "," "," "," "," "," "," ",
              " ","t","r","y","\n"," "," "," "," "," "," "," "," ","{","\n">>
        tail == <<"\n"," "," "," "," "," "," "," "," "," "," "," "," ","C","o","n","s","o","l",
              "e",".","W","r","i","t","e","L","i","n","e","(","\"","check_mark"," ","C","o","d",
              "e"," ","s","a","m","p","l","e"," ","e","x","e","c","u","t","e","d"," ","s","u",
              "c","c","e","s","s","f","u","l","l","y","\"",")",";","\n"," "," "," "," "," "," ",
              " "," ","}","\n"," "," "," "," "," "," "," "," ","c","a","t","c","h"," ","(","E",
              "x","c","e","p","t","i","o","n"," ","e","x",")","\n"," "," "," "," "," "," "," ",
              " ","{","\n"," "," "," "," "," "," "," "," "," "," "," "," ","C","o","n","s","o",
              "l","e",".","W","r","i","t","e","L","i","n","e","(","$","\"","cross_mark"," ","E",
              "r","r","o","r",":"," ","{","e","x",".","M","e","s","s","a","g","e","}","\"",")",
              ";","\n"," "," "," "," "," "," "," "," "," "," "," "," ","E","n","v","i","r","o",
              "n","m","e","n","t",".","E","x","i","t","(","1",")",";","\n"," "," "," "," "," ",
              " "," "," ","}","\n"," "," "," "," ","}","\n","}","\n">>
    IN  IF \/ Contains(code, <<"s","t","a","t","i","c"," ","v","o","i","d"," ","M","a","i","n">>)
           \/ Contains(code, <<"s","t","a","t","i","c"," ","a","s","y","n","c"," ","T","a","s",
                 "k"," ","M","a","i","n">>)
        THEN code
        ELSE (IF Contains(code, <<"a","w","a","i","t"," ">>) THEN async_head ELSE sync_head)
             \o _indent_code(code, 12) \o tail

\* One statement of _prepare_code_for_execution (or the statements on one
\* concern that follow each other), by the name the order below gives it;
\* lang tells the executor, env is its environment argument. The step
\* returns a text or raises.
Step(name, lang, code, env, required_usings) ==
    LET any == -1
        returns(text) == [raised |-> FALSE, code |-> text]
        lazy == <<"rep", ".", 0, any, FALSE>>
        spaces == <<"rep", "s", 0, any, TRUE>>
        test_key == Plain(<<"\"","t","e","s","t","_","a","p","i","_","k","e","y","\"">>)
        \* r'#\s*For help migrating.*?\n.*?#.*?/docs/Migrating.*?\n\s*'
        py_migration == << <<"lit", <<"#">> >>, spaces, <<"lit", <<"F","o","r"," ","h","e","l",
              "p"," ","m","i","g","r","a","t","i","n","g">>>>,
                           lazy, <<"lit", <<"\n">> >>, lazy, <<"lit", <<"#">> >>, lazy,
                           <<"lit", <<"/","d","o","c","s","/","M","i","g","r","a","t","i","n",
                                 "g">>>>, lazy, <<"lit", <<"\n">> >>, spaces >>
        \* r'//\s*For help migrating.*?\n.*?//.*?MIGRATION\.md.*?\n\s*'
        cs_migration == << <<"lit", <<"/","/">>>>, spaces, <<"lit", <<"F","o","r"," ","h","e",
              "l","p"," ","m","i","g","r","a","t","i","n","g">>>>,
                           lazy, <<"lit", <<"\n">> >>, lazy, <<"lit", <<"/","/">>>>, lazy,
                           <<"lit", <<"M","I","G","R","A","T","I","O","N",".","m","d">>>>, lazy, <<"lit", <<"\n">> >>, spaces >>
        \* r'os\.getenv\(["\']DEEPGRAM_API_KEY["\']\)' and the same for
        \* os.environ.get
        env_call(fn) == << <<"lit", fn>>, <<"rep", "q", 1, 1, TRUE>>,
                           <<"lit", <<"D","E","E","P","G","R","A","M","_","A","P","I","_","K",
                                 "E","Y">>>>, <<"rep", "q", 1, 1, TRUE>>,
                           <<"lit", <<")">> >> >>
        \* r'from deepgram import Deepgram\b'
        old_import == << << <<"lit", <<"f","r","o","m"," ","d","e","e","p","g","r","a","m"," ",
              "i","m","p","o","r","t"," ","D","e","e","p","g","r","a","m">>>>, <<"wb">> >>,
                         Plain(<<"f","r","o","m"," ","d","e","e","p","g","r","a","m"," ","i",
                               "m","p","o","r","t"," ","D","e","e","p","g","r","a","m","C","l",
                               "i","e","n","t">>) >>
        \* r'\bDeepgram\('
        old_call == << << <<"wb">>, <<"lit", <<"D","e","e","p","g","r","a","m","(">>>> >>, Plain(<<
              "D","e","e","p","g","r","a","m","C","l","i","e","n","t","(">>) >>
        \* r'\bDEEPGRAM_API_KEY\b'
        key_name == << << <<"wb">>, <<"lit", <<"D","E","E","P","G","R","A","M","_","A","P","I",
              "_","K","E","Y">>>>, <<"wb">> >>, test_key >>
        \* r'"https://dpgr\.am/[^"]*"'; the C# rewriter writes \\. in its raw
        \* string: a backslash and any character but a newline
        py_url == << <<"lit", <<"\"","h","t","t","p","s",":","/","/","d","p","g","r",".","a",
              "m","/">>>>, <<"rep", "^dq", 0, any, TRUE>>,
                     <<"lit", <<"\"">> >> >>
        cs_url == << <<"lit", <<"\"","h","t","t","p","s",":","/","/","d","p","g","r","\\">>>>, <<"rep", ".", 1, 1, TRUE>>,
                     <<"lit", <<"a","m","/">>>>, <<"rep", "^dq", 0, any, TRUE>>,
                     <<"lit", <<"\"">> >> >>
        existing_usings == _extract_imports(code, 1)
        usings_to_add ==
            SelectSeq(required_usings,
                      LAMBDA required : ~\E k \in 1..Len(existing_usings) :
                                            Contains(existing_usings[k], required))
    IN  CASE name = "migration" ->
               returns(ReSub(IF lang = "python" THEN py_migration ELSE cs_migration,
                             Plain(<<>>), code, 1))
          [] name = "indentation" -> returns(_fix_indentation(code))
          [] name = "placeholder_keys" -> returns(ReplacePlaceholderKeys(code))
          [] name = "environment_keys" ->
               returns(SubEach(<< <<env_call(<<"o","s",".","g","e","t","e","n","v","(">>), test_key>>,
                                  <<env_call(<<"o","s",".","e","n","v","i","r","o","n",".","g",
                                        "e","t","(">>), test_key>> >>, code))
          [] name = "constructor" ->
               returns(SubEach(<<old_import, old_call, key_name>>, code))
          [] name = "blocking" -> returns(_replace_blocking_operations(code))
          [] name = "audio" ->
               IF "mock_audio_path" \in DOMAIN env
               THEN _replace_audio_file_paths(lang, code, env.mock_audio_path)
               ELSE returns(code)
          [] name = "url" ->
               returns(ReSub(IF lang = "python" THEN py_url ELSE cs_url,
                             Plain(<<"\"","h","t","t","p","s",":","/","/","e","x","a","m","p",
                                   "l","e",".","c","o","m","/","t","e","s","t",".","w","a","v",
                                   "\"">>), code, 1))
          [] name = "imports" ->
               returns(IF lang = "python" THEN _add_missing_imports(code)
                       ELSE IF usings_to_add # <<>>
                       THEN JoinLines(usings_to_add) \o <<"\n", "\n">> \o code
                       ELSE code)
          [] name = "definitions" ->
               returns(IF lang = "python" THEN _handle_function_definitions(code)
                       ELSE WrapInMain(code))

\* The order with the injection of the imports put in front
StepOrderImportsFirst(lang) ==
    IF lang = "python"
    THEN <<"imports", "migration", "indentation", "placeholder_keys", "environment_keys",
           "constructor", "blocking", "audio", "url", "definitions">>
    ELSE <<"imports", "migration", "placeholder_keys", "audio", "url", "definitions">>

\* The statements of _prepare_code_for_execution in the order of the source.
\* Python executor: lines 577-582, 585, 588-589, 591-592, 595-597, 600,
\* 603-604, 607, 610, 613; C# executor: lines 324-329, 332-333, 336-339, 342,
\* 345-355, 358-405.
StepOrder(lang) ==
    IF lang = "python"
    THEN <<"migration", "indentation", "placeholder_keys", "environment_keys",
           "constructor", "blocking", "audio", "url", "imports", "definitions">>
    ELSE <<"migration", "placeholder_keys", "audio", "url", "imports", "definitions">>

\* seq[-1]
Last(seq) == seq[Len(seq)]

\* The text before the steps named and the text each of them leaves, every
\* step working on the text the one before it left; the list ends with the
\* text given to the step that raises
RECURSIVE StepTexts(_, _, _, _, _)
StepTexts(names, lang, code, env, required_usings) ==
    LET after(step) == IF step.raised THEN <<code>>
                       ELSE <<code>> \o StepTexts(Tail(names), lang, step.code, env,
                                                  required_usings)
    IN  IF names = <<>> THEN <<code>>
        ELSE after(Step(Head(names), lang, code, env, required_usings))

\* _prepare_code_for_execution of either executor: the text its last
\* statement leaves, unless a statement raises. env: its environment
\* argument; required_usings:
\* language_config['dotnet_patterns']['using_statements']
_prepare_code_for_execution(lang, code, env, required_usings) ==
    LET outcome(texts) == IF Len(texts) <= Len(StepOrder(lang))
                          THEN [raised |-> TRUE, code |-> <<>>]
                          ELSE [raised |-> FALSE, code |-> Last(texts)]
    IN  outcome(StepTexts(StepOrder(lang), lang, code, env, required_usings))

\* The script _create_test_script writes around the prepared text (lines
\* 515-567), for a sample of docs/guide.mdx, line 1, of type python_block and
\* the SDK at /sdk: the text up to the body of main()'s try block (it shows
\* the first 300 characters of the text in its docstring), the body, and
\* the text behind it
ScriptAround(prepared) ==
    LET first(shown) == IF Len(shown) <= 300 THEN shown ELSE SubSeq(shown, 1, 300)
    IN
    [code |-> prepared,
     head |-> <<"#","!","/","u","s","r","/","b","i","n","/","e","n","v"," ","p","y","t","h","o",
           "n","3","\n","\"","\"","\"","\n","T","e","s","t"," ","s","c","r","i","p","t"," ","f",
           "o","r"," ","c","o","d","e"," ","s","a","m","p","l","e"," ","f","r","o","m"," ","d",
           "o","c","s","/","g","u","i","d","e",".","m","d","x","\n","L","i","n","e"," ","1",",",
           " ","T","y","p","e",":"," ","p","y","t","h","o","n","_","b","l","o","c","k","\n",
           "\n","G","e","n","e","r","a","t","e","d"," ","c","o","d","e"," ","f","o","r"," ","t",
           "e","s","t","i","n","g",":","\n">>
              \o first(_indent_code(Strip(prepared), 0))
              \o <<".",".",".","\n","\"","\"","\"","\n","\n","i","m","p","o","r","t"," ","o",
                    "s","\n","i","m","p","o","r","t"," ","s","y","s","\n","i","m","p","o","r",
                    "t"," ","t","r","a","c","e","b","a","c","k","\n","f","r","o","m"," ","p",
                    "a","t","h","l","i","b"," ","i","m","p","o","r","t"," ","P","a","t","h",
                    "\n","\n","#"," ","A","d","d"," ","S","D","K"," ","p","a","t","h","\n","s",
                    "y","s",".","p","a","t","h",".","i","n","s","e","r","t","(","0",","," ",
                    "\"","/","s","d","k","\"",")","\n","#"," ","A","l","s","o"," ","s","e","t",
                    " ","P","Y","T","H","O","N","P","A","T","H"," ","e","n","v","i","r","o","n",
                    "m","e","n","t"," ","v","a","r","i","a","b","l","e"," ","f","o","r"," ","s",
                    "u","b","p","r","o","c","e","s","s","\n","o","s",".","e","n","v","i","r",
                    "o","n","[","\"","P","Y","T","H","O","N","P","A","T","H","\"","]"," ","=",
                    " ","\"","/","s","d","k","\""," ","+"," ","o","s",".","p","a","t","h","s",
                    "e","p"," ","+"," ","o","s",".","e","n","v","i","r","o","n",".","g","e","t",
                    "(","\"","P","Y","T","H","O","N","P","A","T","H","\"",","," ","\"","\"",")",
                    "\n","\n","d","e","f"," ","m","a","i","n","(",")",":","\n"," "," "," "," ",
                    "t","r","y",":","\n"," "," "," "," "," "," "," "," ","s","a","m","p","l",
                    "e","_","f","i","l","e"," ","="," ","\"","g","u","i","d","e",".","m","d",
                    "x","\"","\n"," "," "," "," "," "," "," "," ","s","a","m","p","l","e","_",
                    "l","i","n","e"," ","="," ","1","\n"," "," "," "," "," "," "," "," ","p",
                    "r","i","n","t","(","f","\"","T","e","s","t","i","n","g"," ","c","o","d",
                    "e"," ","f","r","o","m"," ","{","s","a","m","p","l","e","_","f","i","l","e",
                    "}",":","{","s","a","m","p","l","e","_","l","i","n","e","}","\"",")","\n",
                    "\n"," "," "," "," "," "," "," "," ","#"," ","O","r","i","g","i","n","a",
                    "l"," ","c","o","d","e"," ","s","a","m","p","l","e"," ","(","m","o","d","i",
                    "f","i","e","d"," ","f","o","r"," ","t","e","s","t","i","n","g",")","\n">>,
     body |-> _indent_code(Strip(prepared), 8),
     tail |-> <<"\n","\n"," "," "," "," "," "," "," "," ","p","r","i","n","t","(","\"","U+00E2",
           "U+0153","U+2026"," ","C","o","d","e"," ","s","a","m","p","l","e"," ","e","x","e",
           "c","u","t","e","d"," ","s","u","c","c","e","s","s","f","u","l","l","y","\"",")",
           "\n"," "," "," "," "," "," "," "," ","r","e","t","u","r","n"," ","T","r","u","e",
           "\n","\n"," "," "," "," ","e","x","c","e","p","t"," ","S","y","n","t","a","x","E",
           "r","r","o","r"," ","a","s"," ","e",":","\n"," "," "," "," "," "," "," "," ","p","r",
           "i","n","t","(","f","\"","U+00E2","U+0152"," ","S","y","n","t","a","x"," ","e","r",
           "r","o","r"," ","i","n"," ","g","e","n","e","r","a","t","e","d"," ","c","o","d","e",
           ":","\"",")","\n"," "," "," "," "," "," "," "," ","p","r","i","n","t","(","f","\"",
           " "," "," ","L","i","n","e"," ","{","e",".","l","i","n","e","n","o","}",":"," ","{",
           "e",".","t","e","x","t",".","s","t","r","i","p","(",")"," ","i","f"," ","e",".","t",
           "e","x","t"," ","e","l","s","e"," ","'","U","n","k","n","o","w","n","'","}","\"",")",
           "\n"," "," "," "," "," "," "," "," ","p","r","i","n","t","(","f","\""," "," "," ",
           "{","e",".","m","s","g","}","\"",")","\n"," "," "," "," "," "," "," "," ","r","e",
           "t","u","r","n"," ","F","a","l","s","e","\n"," "," "," "," ","e","x","c","e","p","t",
           " ","I","m","p","o","r","t","E","r","r","o","r"," ","a","s"," ","e",":","\n"," "," ",
           " "," "," "," "," "," ","p","r","i","n","t","(","f","\"","U+00E2","U+0152"," ","I",
           "m","p","o","r","t"," ","e","r","r","o","r",":"," ","{","e","}","\"",")","\n"," ",
           " "," "," "," "," "," "," ","p","r","i","n","t","(","\""," "," "," ","M","a","k","e",
           " ","s","u","r","e"," ","t","h","e"," ","D","e","e","p","g","r","a","m"," ","S","D",
           "K"," ","i","s"," ","i","n","s","t","a","l","l","e","d"," ","a","n","d"," ","a","c",
           "c","e","s","s","i","b","l","e","\"",")","\n"," "," "," "," "," "," "," "," ","r",
           "e","t","u","r","n"," ","F","a","l","s","e","\n"," "," "," "," ","e","x","c","e","p",
           "t"," ","E","x","c","e","p","t","i","o","n"," ","a","s"," ","e",":","\n"," "," "," ",
           " "," "," "," "," ","p","r","i","n","t","(","f","\"","U+00E2","U+0152"," ","R","u",
           "n","t","i","m","e"," ","e","r","r","o","r",":"," ","{","e","}","\"",")","\n"," ",
           " "," "," "," "," "," "," ","p","r","i","n","t","(","\""," "," "," ","F","u","l","l",
           " ","t","r","a","c","e","b","a","c","k",":","\"",")","\n"," "," "," "," "," "," ",
           " "," ","t","r","a","c","e","b","a","c","k",".","p","r","i","n","t","_","e","x","c",
           "(",")","\n"," "," "," "," "," "," "," "," ","r","e","t","u","r","n"," ","F","a","l",
           "s","e","\n","\n","i","f"," ","_","_","n","a","m","e","_","_"," ","=","="," ","\"",
           "_","_","m","a","i","n","_","_","\"",":","\n"," "," "," "," ","s","u","c","c","e",
           "s","s"," ","="," ","m","a","i","n","(",")","\n"," "," "," "," ","s","y","s",".","e",
           "x","i","t","(","0"," ","i","f"," ","s","u","c","c","e","s","s"," ","e","l","s","e",
           " ","1",")","\n">>]

\* PythonExecutor._create_test_script: the content of the script written,
\* unless the preparation of the text (line 512) raises
_create_test_script(code, env) ==
    LET written(prepared) == IF prepared.raised THEN [raised |-> TRUE, script |-> EmptyDict]
                             ELSE [raised |-> FALSE, script |-> ScriptAround(prepared.code)]
    IN  written(_prepare_code_for_execution("python", code, env, <<>>))

RewriteInit ==
    /\ language \in {"python", "csharp"}
    /\ validation_rules = <<>>
    /\ \E code \in RewriteTexts :
          call = [fn |-> "_prepare_code_for_execution", code |-> code,
                  environment |-> IF requires_audio_file(language, code)
                                  THEN [mock_audio_path |-> MOCK_AUDIO_PATH]
                                  ELSE EmptyDict,
                  required_usings |-> <<>>]
    /\ ret = NoRet
    /\ LoopIdle

\* What a call of _prepare_code_for_execution leaves in ret: the text behind
\* the replacement of the placeholder key, and the text returned unless the
\* call raised
Rewritten(lang) ==
    LET order == StepOrder(lang)
        k == CHOOSE n \in 1..Len(order) : order[n] = "placeholder_keys"
        texts == StepTexts(SubSeq(order, 1, k), lang, call.code, call.environment,
                           call.required_usings)
        left(prepared) == [returned |-> TRUE,
                           raised |-> prepared.raised,
                           keys_replaced |-> texts[k + 1],
                           code |-> prepared.code]
    IN  left(_prepare_code_for_execution(lang, call.code, call.environment,
                                         call.required_usings))

\* PythonExecutor._prepare_code_for_execution(sample, environment)
RewritePython ==
    /\ language = "python"
    /\ call.fn = "_prepare_code_for_execution"
    /\ ~ret.returned
    /\ ret' = Rewritten("python")
    /\ UNCHANGED <<config, call, loop_state>>

\* CSharpExecutor._prepare_code_for_execution(sample, environment)
RewriteCSharp ==
    /\ language = "csharp"
    /\ call.fn = "_prepare_code_for_execution"
    /\ ~ret.returned
    /\ ret' = Rewritten("csharp")
    /\ UNCHANGED <<config, call, loop_state>>

RewriteSpec == RewriteInit /\ [][RewritePython \/ RewriteCSharp]_vars

\* Most lines of a text of PrepareSpec and of WrapSpec.
MaxCodeLines == 3

\* The paths of the mock audio file: os.path.join(temp_dir, 'test_audio.wav')
\* for the temporary directories /tmp/sandbox, /tmp/w\data and
\* /tmp/a\temp\g<0>
MockPaths ==
    { MOCK_AUDIO_PATH, <<"/","t","m","p","/","w","\\","d","a","t","a","/","t","e","s","t","_",
          "a","u","d","i","o",".","w","a","v">>,
      <<"/","t","m","p","/","a","\\","t","e","m","p","\\","g","<","0",">","/","t","e","s","t",
        "_","a","u","d","i","o",".","w","a","v">> }

\* The lines the texts of PrepareSpec are made of
CodeLines(lang) ==
    IF lang = "python"
    THEN { <<"w","h","i","l","e"," ","T","r","u","e",":">>, <<" "," "," "," ","w","h","i","l",
          "e"," ","T","r","u","e",":"," "," ","#"," ","w","a","i","t">>,
           <<"k","e","y"," ","="," ","o","s",".","g","e","t","e","n","v","(","\"","D","E","E",
             "P","G","R","A","M","_","A","P","I","_","K","E","Y","\"",")">>, <<"d","e","f"," ",
                   "f","(",")",":">>, <<"f","(",")">>,
           <<"i","m","p","o","r","t"," ","o","s">>, <<"f"," ","="," ","o","p","e","n","(","\"",
                 "a","u","d","i","o",".","w","a","v","\"",")">> }
    ELSE { <<"u","s","i","n","g"," ","D","e","e","p","g","r","a","m",";">>, <<"v","a","r"," ",
          "d","g"," ","="," ","n","e","w"," ","D","e","e","p","g","r","a","m","C","l","i","e",
          "n","t","(","\"","Y","O","U","R","_","A","P","I","_","K","E","Y","\"",")",";">>,
           <<"a","w","a","i","t"," ","d","g",".","R","u","n","(","\"","a","u","d","i","o",".",
             "w","a","v","\"",")",";">>, <<"s","t","a","t","i","c"," ","v","o","i","d"," ","M",
                   "a","i","n","(",")"," ","{"," ","}">> }

\* The texts of at most MaxCodeLines of the lines given
CodeTexts(lines) ==
    { JoinLines(chosen) : chosen \in UNION { [1..n -> lines] : n \in 1..MaxCodeLines } }

PrepareInit ==
    /\ language \in {"python", "csharp"}
    /\ validation_rules = <<>>
    /\ \E code \in CodeTexts(CodeLines(language)) :
       \E fn \in {"_prepare_code_for_execution"}
                 \cup (IF language = "python" THEN {"_create_test_script"} ELSE {}) :
       \E usings \in IF language = "python" THEN {<<>>}
                     ELSE {<<>>, <<<<"u","s","i","n","g"," ","D","e","e","p","g","r","a","m",";">>>>} :
       \E env \in IF requires_audio_file(language, code)
                  THEN {[mock_audio_path |-> path] : path \in MockPaths}
                  ELSE {EmptyDict} :
          call = [fn |-> fn, code |-> code, environment |-> env,
                  required_usings |-> usings]
    /\ ret = NoRet
    /\ LoopIdle

\* PythonExecutor._create_test_script(sample, environment)
CreateTestScript ==
    /\ language = "python"
    /\ call.fn = "_create_test_script"
    /\ ~ret.returned
    /\ LET left(written) == [returned |-> TRUE, raised |-> written.raised,
                              script |-> written.script]
       IN  ret' = left(_create_test_script(call.code, call.environment))
    /\ UNCHANGED <<config, call, loop_state>>

PrepareSpec == PrepareInit /\ [][RewritePython \/ RewriteCSharp \/ CreateTestScript]_vars

\* _wrap_executable_code(code) entered: the state before its loop
WrapInit ==
    /\ language = "python"
    /\ validation_rules = <<>>
    /\ \E code \in CodeTexts((CodeLines("python") \ { <<"f"," ","="," ","o","p","e","n","(",
          "\"","a","u","d","i","o",".","w","a","v","\"",")">> })
                             \cup { <<>>, <<"#"," ","n","o","t","e">>, <<"c","l","a","s","s",
                                   " ","A",":">>,
                                    <<" "," "," "," ","r","e","t","u","r","n"," ","1">> }) :
          /\ call = [fn |-> "_wrap_executable_code", code |-> code]
          /\ ret = [returned |-> FALSE, w |-> WrapStart(code)]
    /\ LoopIdle

\* One iteration of a loop of _wrap_executable_code
WrapIterate ==
    /\ call.fn = "_wrap_executable_code"
    /\ ~ret.returned
    /\ WrapRunning(ret.w)
    /\ ret' = [ret EXCEPT !.w = WrapIteration(@)]
    /\ UNCHANGED <<config, call, loop_state>>

\* The loop of _wrap_executable_code left: lines 676-685
WrapReturn ==
    /\ call.fn = "_wrap_executable_code"
    /\ ~ret.returned
    /\ ~WrapRunning(ret.w)
    /\ ret' = [returned |-> TRUE, w |-> ret.w, code |-> WrapResult(ret.w)]
    /\ UNCHANGED <<config, call, loop_state>>

\* The interpreter goes on running the call until it returns
WrapSpec ==
    WrapInit /\ [][WrapIterate \/ WrapReturn]_vars /\ WF_vars(WrapIterate \/ WrapReturn)
(***************************************************************************)
(* Properties of the per-sample loop                                       *)
(***************************************************************************)

\* Positions in results of the results recorded for sample k
ResultsFor(k) == {j \in 1..Len(results) : results[j].sample = k}

\* The loop is between two samples (or has returned)
BetweenSamples == pc \in {"loop", "done"}

\* Directories still on disk although no deletion of them failed
Leaked == dirs \ rmtree_failed

\* C1: whenever the loop is about to start the next sample (or returns), the
\* directory of every environment prepare_test_environment returned for an
\* earlier sample has been removed by cleanup_test_environment (a directory
\* whose deletion itself failed set aside), whatever happened in between.
C1_RemovedBeforeNextSample ==
    BetweenSamples =>
        \A k \in 1..Len(samples) : env_of[k] # 0 => env_of[k] \notin Leaked

\* C2: when the run has ended, cleanup_test_environment was invoked exactly
\* once for each environment prepare_test_environment returned, and none of
\* their directories is left.
C2_CleanupExactlyOnce ==
    pc = "done" =>
        \A k \in 1..Len(samples) :
            env_of[k] # 0 =>
                /\ cleanup_calls[env_of[k]] = 1
                /\ env_of[k] \notin Leaked

\* C3: the loop runs to completion over all samples: no exception leaves it,
\* it can always take its next step until it has returned, and when it has
\* returned every sample was either skipped or has a result.
C3_RunsToCompletion ==
    /\ pc # "aborted"
    /\ pc = "done" \/ ENABLED Next
    /\ pc = "done" =>
          /\ i = Len(samples) + 1
          /\ \A k \in 1..Len(samples) :
                ShouldSkip(k) \/ ResultsFor(k) # {}

\* C3 witness: the run has ended, the first sample's processing raised and the
\* second sample was processed all the same.
C3_Witness ==
    /\ pc = "done"
    /\ Len(samples) >= 2
    /\ \E j \in ResultsFor(1) : how[j].by = "handler"
    /\ ResultsFor(2) # {}

\* Result j has a blocking finding (analysis mode: "findings" is the list)
HasBlockingFinding(j) ==
    /\ language = "python"
    /\ "findings" \in DOMAIN results[j].validation_results
    /\ \E f \in 1..Len(results[j].validation_results["findings"]) :
           results[j].validation_results["findings"][f].blocking

\* Result j comes from a subprocess that exited with a nonzero code
ExitedNonzero(j) == how[j].run = "exit" /\ how[j].returncode # 0

\* Result j comes from an execution that raised or timed out
RaisedOrTimedOut(j) ==
    \/ how[j].by = "handler"
    \/ how[j].restore = "error"
    \/ how[j].run \in {"timeout", "error"}
    \/ how[j].validation_raised

\* C4: every recorded TestResult has success = false whenever one of its
\* findings is blocking, or the subprocess exited nonzero, or execution raised
\* or timed out.
C4_FailureImpliesNotSuccess ==
    \A j \in 1..Len(results) :
        (HasBlockingFinding(j) \/ ExitedNonzero(j) \/ RaisedOrTimedOut(j))
            => ~results[j].success

\* C4 witness: one run recorded a failed result for a program that exited
\* nonzero and another for a program that timed out.
C4_Witness ==
    /\ \E j \in 1..Len(results) : ExitedNonzero(j) /\ ~results[j].success
    /\ \E j \in 1..Len(results) : how[j].run = "timeout" /\ ~results[j].success

\* C5: in analysis mode the result of execute_sample has success = true
\* exactly when none of its findings is blocking.
C5_AnalysisSuccessIffNoBlocking ==
    language = "python" =>
        \A j \in 1..Len(results) :
            how[j].by = "execute" =>
                (results[j].success <=> ~HasBlockingFinding(j))

\* C5 witness: an analysed sample with findings, none of them blocking, and a
\* successful result.
C5_Witness ==
    /\ language = "python"
    /\ \E j \in 1..Len(results) :
          /\ how[j].by = "execute"
          /\ results[j].validation_results["findings"] # <<>>
          /\ results[j].success

\* C6: in execution mode the result of execute_sample for a launched program
\* that exited has success = true exactly when the exit code is zero,
\* whatever the validation rules do afterwards.
C6_ExecutionSuccessIffExitZero ==
    language = "csharp" =>
        \A j \in 1..Len(results) :
            (how[j].by = "execute" /\ how[j].run = "exit") =>
                (results[j].success <=> how[j].returncode = 0)

\* C7: a timeout of the launched program gives a recorded result with
\* success = false, the fixed message and empty streams; a timeout of the
\* restore step alone, followed by a program that exits, does not give the
\* timed-out result.
C7_TimeoutResult ==
    \A j \in 1..Len(results) :
        /\ (how[j].by = "execute" /\ how[j].run = "timeout") =>
              /\ ~results[j].success
              /\ results[j].error_message = "Test execution timed out"
              /\ results[j].stdout = <<>>
              /\ results[j].stderr = <<>>
        /\ (how[j].by = "execute" /\ how[j].restore = "timeout" /\ how[j].run = "exit") =>
              results[j].error_message # "Test execution timed out"

\* C7 witness: one program timed out, and another exited after its restore
\* step had timed out.
C7_Witness ==
    /\ \E j \in 1..Len(results) : how[j].by = "execute" /\ how[j].run = "timeout"
    /\ \E j \in 1..Len(results) :
          how[j].by = "execute" /\ how[j].restore = "timeout" /\ how[j].run = "exit"

\* C8: when prepare_test_environment raised for a sample, the loop went on
\* and recorded for that sample exactly one result, with success = false and
\* the exception's text as its error message.
C8_PrepareFailureRecorded ==
    /\ pc # "aborted"
    /\ \A k \in 1..Len(samples) :
          (prepare_exc[k] # "" /\ k < i) =>
              /\ Cardinality(ResultsFor(k)) = 1
              /\ \A j \in ResultsFor(k) :
                    /\ ~results[j].success
                    /\ results[j].error_message = prepare_exc[k]

\* C8 witness: prepare raised for a sample the loop has moved past.
C8_Witness == \E k \in 1..Len(samples) : prepare_exc[k] # "" /\ k < i

\* C9: a failed deletion in cleanup_test_environment does not raise into the
\* loop, and the sample keeps the one result execute_sample returned for it.
C9_CleanupFailureHarmless ==
    /\ pc # "aborted"
    /\ \A d \in rmtree_failed :
          \A k \in dir_users[d] :
              /\ ~(pc = "except" /\ i = k)
              /\ Cardinality(ResultsFor(k)) = 1
              /\ \A j \in ResultsFor(k) : how[j].by = "execute"

\* C9 witness: a deletion failed and the loop went on to the next sample.
C9_Witness ==
    \E d \in rmtree_failed : \E k \in dir_users[d] : k < i /\ ResultsFor(k) # {}

\* C10: samples are processed one at a time in extraction order: nothing of a
\* later sample exists while an earlier one is processed, the environment in
\* use is the current sample's own, no directory serves two samples, and the
\* results are in the order of their samples.
C10_Sequential ==
    /\ \A k \in 1..Len(samples) :
          k > i => /\ env_of[k] = 0
                   /\ prepare_exc[k] = ""
                   /\ ResultsFor(k) = {}
                   /\ \A d \in DOMAIN dir_users : k \notin dir_users[d]
    /\ pc \in {"execute", "report", "cleanup"} =>
          /\ environment.temp_dir = env_of[i]
          /\ dir_users[environment.temp_dir] = {i}
    /\ \A d \in DOMAIN dir_users : Cardinality(dir_users[d]) <= 1
    /\ \A a, b \in 1..Len(results) : a < b => results[a].sample <= results[b].sample

\* C10 witness: the second sample is being executed in its own environment
\* after the first one was processed in another.
C10_Witness ==
    /\ pc = "execute"
    /\ i = 2
    /\ env_of[1] # 0
    /\ env_of[2] # 0
    /\ ResultsFor(1) # {}

\* C11: every sample that reached execute_sample had validate_sample
\* evaluated on it as part of its processing, in analysis mode and in
\* execution mode.
C11_EverySampleValidated ==
    \A j \in 1..Len(results) : how[j].by = "execute" => how[j].validated

(***************************************************************************)
(* Properties of validate_sample                                           *)
(***************************************************************************)

\* validate_sample was called and has returned or raised
Validated == call.fn = "validate_sample" /\ ret.returned

\* The pattern of rule k occurs in the raw code of the sample validated
PatternFound(k) == Contains(Code(call.sample), validation_rules[k].check)

\* C12: for every configured rule, validate_sample reports the rule as
\* passed (the mapping it returns holds TRUE under the rule's name) exactly
\* when (its pattern occurs in the sample's raw code) equals its expectation
\* flag, the flag counting as false when the rule has none.
C12_PassIffFoundEqualsExpected ==
    Validated =>
        \A k \in 1..Len(validation_rules) :
            (/\ validation_rules[k].name \in DOMAIN ret.results
             /\ ret.results[validation_rules[k].name])
                <=> (PatternFound(k) <=> validation_rules[k].expected = "true")

\* C13: validate_sample returns a mapping with an outcome for every
\* configured rule, whatever the outcome or the error of another rule.
C13_EveryRuleReported ==
    Validated =>
        /\ ~ret.raised
        /\ \A k \in 1..Len(validation_rules) :
              validation_rules[k].name \in DOMAIN ret.results

(***************************************************************************)
(* Properties of extract_samples                                           *)
(***************************************************************************)

\* extract_samples was called and has returned or raised
ExtractDone == call.fn = "extract_samples" /\ ret.returned

IsReadable(f) == f.readable

\* The document holds the opening of a fenced block of the language
HasOpener(lang, content) ==
    IF lang = "python"
    THEN Contains(content, FENCE.python) \/ Contains(content, FENCE.py)
    ELSE \E k \in 1..Len(CsOpeners) : Contains(content, CsOpeners[k])

\* C14: extract_samples does not raise when a document cannot be read; no
\* returned sample comes from such a document, the samples returned are
\* exactly those of the corpus without the unreadable documents, and a
\* corpus without any block of the language gives the empty list.
C14_UnreadableDocumentSkipped ==
    ExtractDone =>
        /\ ~ret.raised
        /\ \A k \in 1..Len(ret.samples) :
              \E f \in 1..Len(call.mdx_files) :
                  /\ call.mdx_files[f].path = ret.samples[k].file_path
                  /\ call.mdx_files[f].readable
        /\ ret.samples = extract_samples(language, SelectSeq(call.mdx_files, IsReadable)).samples
        /\ (\A f \in 1..Len(call.mdx_files) :
                ~HasOpener(language, Content(call.mdx_files[f].path)))
              => ret.samples = <<>>

\* C14 witness: the first document, which holds a block of the language,
\* could not be read, and the samples of the second were returned.
C14_Witness ==
    /\ ExtractDone
    /\ Len(call.mdx_files) = 2
    /\ ~call.mdx_files[1].readable
    /\ HasOpener(language, Content(call.mdx_files[1].path))
    /\ call.mdx_files[2].readable
    /\ ret.samples # <<>>

\* The line is a comment line of the dialect
CommentLine(lang, line) ==
    IF lang = "python" THEN StartsWith(line, <<"#">>)
    ELSE \/ StartsWith(line, <<"/", "/">>)
         \/ StartsWith(line, <<"/", "*">>)
         \/ StartsWith(line, <<"*">>)

\* Every non-blank line of the block is a comment line
CommentOnly(lang, code) ==
    \A k \in 1..Len(NonBlankLines(code)) : CommentLine(lang, NonBlankLines(code)[k])

\* C15: no sample extract_samples returns is shorter, trimmed, than the
\* minimum length (20 characters, the least threshold of the 20-30 range), and
\* none consists of comment lines only.
C15_ShortOrCommentOnlyExcluded ==
    ExtractDone =>
        \A k \in 1..Len(ret.samples) :
            /\ Len(Strip(ret.samples[k].code)) >= 20
            /\ ~CommentOnly(language, ret.samples[k].code)

\* C16: every sample extract_samples returns refers to the library: its text
\* holds the library's name, in whatever letter case (every pattern of the
\* two dialects' lists does).
C16_EverySampleRefersToLibrary ==
    ExtractDone =>
        \A k \in 1..Len(ret.samples) :
            Contains(Lower(ret.samples[k].code), PAT.deepgram)

(***************************************************************************)
(* Properties of the analysis                                              *)
(***************************************************************************)

\* execute_sample of the analysis was called and has returned
Analyzed == call.fn = "execute_sample" /\ ret.returned

\* The findings of the returned result
Findings == ret.result.validation_results["findings"]

\* The positions of the blocking findings
BlockingFindings == {k \in 1..Len(Findings) : Findings[k].blocking}

\* The positions of the findings naming the outdated import
OutdatedImportFindings ==
    {k \in 1..Len(Findings) : Findings[k].issue = "Outdated SDK Import (v2/v3)"}

\* C17 as stated: a text containing "from deepgram import Deepgram" yields
\* exactly one blocking finding, the one naming the outdated import, and
\* success = false.
C17_ExactlyOneBlockingFinding ==
    (Analyzed /\ Contains(call.code, PAT.from_deepgram_import_Deepgram)) =>
        /\ Cardinality(BlockingFindings) = 1
        /\ BlockingFindings = OutdatedImportFindings
        /\ ~ret.result.success

\* C17 amended: a text containing "from deepgram import Deepgram" yields
\* exactly one finding naming the outdated import, that finding is blocking,
\* and success = false; other blocking findings may accompany it.
C17_OutdatedImportFinding ==
    (Analyzed /\ Contains(call.code, PAT.from_deepgram_import_Deepgram)) =>
        /\ Cardinality(OutdatedImportFindings) = 1
        /\ OutdatedImportFindings \subseteq BlockingFindings
        /\ ~ret.result.success

\* C17 witness: a text with the outdated import and the outdated constructor
\* was analysed and has two blocking findings, one naming the import.
C17_Witness ==
    /\ Analyzed
    /\ Contains(call.code, PAT.from_deepgram_import_Deepgram)
    /\ Cardinality(BlockingFindings) = 2
    /\ Cardinality(OutdatedImportFindings) = 1
    /\ ~ret.result.success

\* The kinds of finding that are conditions failing at run time: an outdated
\* API symbol, a missing import, a misuse of the async client
FailsAtRunTime(issue) ==
    issue \in {"Outdated SDK Import (v2/v3)", "Outdated Constructor (v2/v3)",
               "Outdated API Pattern (v2/v3)", "Missing Core Import",
               "Missing Standard Import", "Missing Optional Import",
               "Async Pattern Issue"}

\* C18: a finding is blocking exactly when its kind is a condition that
\* fails at run time.
C18_BlockingIffFailsAtRunTime ==
    Analyzed =>
        \A k \in 1..Len(Findings) :
            Findings[k].blocking <=> FailsAtRunTime(Findings[k].issue)

(***************************************************************************)
(* Properties of the rewrite                                               *)
(***************************************************************************)

\* _prepare_code_for_execution was called and has returned
RewriteDone == call.fn = "_prepare_code_for_execution" /\ ret.returned

\* C19: the replacement of the quoted placeholder key is idempotent: applied
\* to the text it produced, it changes nothing.
C19_KeyReplacementIdempotent ==
    RewriteDone => ReplacePlaceholderKeys(ret.keys_replaced) = ret.keys_replaced

\* The quoted literals of a text that end in an audio extension: a quote, a
\* stretch without that quote ending in a dot and an extension, the quote
AudioLiteralsOf(text) ==
    { pe \in (1..Len(text)) \X (1..Len(text)) :
        /\ pe[1] < pe[2]
        /\ text[pe[1]] \in {"\"", "'"}
        /\ text[pe[2]] = text[pe[1]]
        /\ \A k \in (pe[1] + 1)..(pe[2] - 1) : text[k] # text[pe[1]]
        /\ \E ext \in AudioExtensions("csharp") :
              /\ pe[2] - Len(ext) - 1 > pe[1]
              /\ SubSeq(text, pe[2] - Len(ext) - 1, pe[2] - 1) = <<".">> \o ext }

\* C20: after the rewrite of a sample with requires_audio_file = true, every
\* quoted literal ending in an audio extension is the mock file's path.
C20_AudioPathsAreMockPath ==
    (RewriteDone /\ ~ret.raised /\ "mock_audio_path" \in DOMAIN call.environment) =>
        \A pe \in AudioLiteralsOf(ret.code) :
            SubSeq(ret.code, pe[1] + 1, pe[2] - 1) = call.environment.mock_audio_path

(***************************************************************************)
(* Properties of the loop: results per sample, directories of failed       *)
(* preparations                                                            *)
(***************************************************************************)

\* The positions in results of the TestResults of the sample at position k
ResultsOf(k) == {j \in 1..Len(results) : results[j].sample = k}

\* C26: after any run of run_language_tests the results list holds exactly
\* one TestResult for each sample should_skip_sample did not skip and none
\* for a skipped sample, wherever in a sample's processing an exception was
\* raised.
C26_OneResultPerSample ==
    pc = "done" =>
        \A k \in 1..Len(samples) :
            Cardinality(ResultsOf(k)) = IF ShouldSkip(k) THEN 0 ELSE 1

\* C28: when prepare_test_environment raised for a sample after it had
\* created the temporary directory, that directory is gone once the loop has
\* moved past the sample.
C28_FailedPrepareLeavesNoDirectory ==
    BetweenSamples =>
        \A d \in DOMAIN dir_users :
            \A k \in dir_users[d] :
                (prepare_exc[k] # "" /\ k < i) => d \notin dirs

(***************************************************************************)
(* Properties of the extracted samples                                     *)
(***************************************************************************)

\* The classification tags of a CodeSample: synchronous, asynchronous,
\* streaming, class-definition, function-definition, as the code spells them
SampleTypes == {"sync", "async", "streaming", "class", "function"}

\* C23: every CodeSample extract_samples returns, of either extractor,
\* carries a classification tag of the closed set.
C23_SampleTypeInClosedSet ==
    ExtractDone =>
        \A k \in 1..Len(ret.samples) : ret.samples[k].sample_type \in SampleTypes

\* C27: each fenced block of a document yields at most one CodeSample: no
\* two samples extract_samples returns come from the same block (the same
\* document and the same line the fence opens on).
C27_AtMostOneSamplePerBlock ==
    ExtractDone =>
        \A a, b \in 1..Len(ret.samples) :
            (/\ ret.samples[a].file_path = ret.samples[b].file_path
             /\ ret.samples[a].line_number = ret.samples[b].line_number) => a = b

(***************************************************************************)
(* Properties of the analysis result                                       *)
(***************************************************************************)

\* C24: every TestResult execute_sample returns in analysis mode carries in
\* its validation mapping the findings list and the aggregate blocking flag,
\* nothing else; the flag is true exactly when some finding of the list is
\* blocking; stderr is empty.
C24_ValidationCarriesFindingsAndFlag ==
    Analyzed =>
        LET v == ret.result.validation_results
        IN  /\ DOMAIN v = {"findings", "blocking_issues"}
            /\ v["findings"] = _analyze_sample(call.code)
            /\ v["blocking_issues"] <=> (BlockingFindings # {})
            /\ ret.result.stderr = <<>>

\* C24 witness: an analysed text with a blocking finding and a finding that
\* is not blocking, and the flag set.
C24_Witness ==
    /\ Analyzed
    /\ BlockingFindings # {}
    /\ BlockingFindings # 1..Len(Findings)
    /\ ret.result.validation_results["blocking_issues"]

\* The lines of a text other than the import of the current client
OtherLines(code) ==
    SelectSeq(SplitLines(code),
              LAMBDA line : line # PAT.from_deepgram_import_DeepgramClient)

\* C29: a text that imports the current client with the line
\* "from deepgram import DeepgramClient" and whose other lines match no
\* pattern of the catalogue gets no blocking finding, and success = true.
C29_CurrentImportNotBlocking ==
    (/\ Analyzed
     /\ OtherLines(call.code) # SplitLines(call.code)
     /\ _analyze_sample(JoinLines(OtherLines(call.code))) = <<>>) =>
        /\ BlockingFindings = {}
        /\ ret.result.success

(***************************************************************************)
(* Properties of the rewritten text                                        *)
(***************************************************************************)

\* Has _prepare_code_for_execution of the Python rewriter returned a text?
PythonPrepared ==
    /\ language = "python"
    /\ call.fn = "_prepare_code_for_execution"
    /\ ret.returned
    /\ ~ret.raised

\* The lines of a text that open a `while True` loop
WhileTrueHeaders(code) ==
    SelectSeq(SplitLines(code), LAMBDA line : StartsWith(Strip(line), <<"w","h","i","l","e"," ",
          "T","r","u","e">>))

\* C21: the rewritten text of a sample with a `while True:` loop holds no
\* `while True` loop header: each header of the sample has become the header
\* of a loop of 3 iterations.
C21_NoUnboundedLoopLeft ==
    (PythonPrepared /\ WhileTrueHeaders(call.code) # <<>>) =>
        WhileTrueHeaders(ret.code) = <<>>

\* The order of the steps as the specification lists them
ClaimedOrder ==
    <<"migration", "indentation", "placeholder_keys", "environment_keys", "constructor",
      "blocking", "audio", "url", "imports", "definitions">>

\* The steps of the list the C# rewriter has
CSharpSteps == {"migration", "placeholder_keys", "audio", "url", "imports", "definitions"}

\* C22: what a rewriter returns is what the steps give when they are applied
\* in the order of the specification's list, each to the text the step
\* before it left (the Python rewriter has all ten, the C# rewriter six of
\* them): the text behind the placeholder-credential step, the text
\* returned, and a raise exactly when one of the steps so applied raises;
\* and the import step sees the text behind the credential steps: a Python
\* text that uses os only in calls that read the key, and does not import
\* it, gets no import of os.
C22_StepsInListedOrder ==
    RewriteDone =>
        LET listed == IF language = "python" THEN ClaimedOrder
                      ELSE SelectSeq(ClaimedOrder, LAMBDA name : name \in CSharpSteps)
            apply(before, name) ==
                IF before.raised THEN before
                ELSE Step(name, language, before.code, call.environment,
                          call.required_usings)
            behind[k \in 0..Len(listed)] ==
                IF k = 0 THEN [raised |-> FALSE, code |-> call.code]
                ELSE apply(behind[k - 1], listed[k])
            keys == CHOOSE k \in 1..Len(listed) : listed[k] = "placeholder_keys"
            without_calls == Step("environment_keys", language, call.code,
                                  call.environment, call.required_usings).code
        IN  /\ ret.keys_replaced = behind[keys].code
            /\ ret.raised = behind[Len(listed)].raised
            /\ ~ret.raised => ret.code = behind[Len(listed)].code
            /\ (/\ language = "python"
                /\ ~ret.raised
                /\ ~Contains(without_calls, PAT.os_getenv)
                /\ ~Contains(without_calls, PAT.os_environ)
                /\ ~Contains(call.code, PAT.import_os)) => ~Contains(ret.code, PAT.import_os)

\* C22 witness: a Python text whose only use of os is the call that reads the
\* key has been rewritten, and no import of os was put in front of it.
C22_Witness ==
    /\ PythonPrepared
    /\ Contains(call.code, <<"o","s",".","g","e","t","e","n","v","(","\"","D","E","E","P","G",
          "R","A","M","_","A","P","I","_","K","E","Y","\"",")">>)
    /\ ~Contains(call.code, PAT.import_os)
    /\ ~Contains(ret.code, PAT.import_os)
    /\ Contains(ret.code, <<"k","e","y"," ","="," ","\"","t","e","s","t","_","a","p","i","_",
          "k","e","y","\"">>)

(***************************************************************************)
(* Properties of the generated test script                                 *)
(***************************************************************************)

\* The headers of the functions and classes a text defines at the top level
TopLevelHeaders(code) ==
    SelectSeq(SplitLines(code),
              LAMBDA line : StartsWith(line, <<"d","e","f"," ">>) \/ StartsWith(line, <<"c","l",
                    "a","s","s"," ">>))

\* C25: in the script generated for a sample that defines functions or
\* classes at the top level, no line of the body of the entry point main() is
\* the header of a function or class definition: the definitions stay at
\* module scope, outside main().
C25_DefinitionsOutsideEntryPoint ==
    (/\ call.fn = "_create_test_script"
     /\ ret.returned
     /\ ~ret.raised
     /\ TopLevelHeaders(call.code) # <<>>) =>
        \A k \in 1..Len(SplitLines(ret.script.body)) :
            LET line == Strip(SplitLines(ret.script.body)[k])
            IN  ~StartsWith(line, <<"d","e","f"," ">>) /\ ~StartsWith(line, <<"c","l","a","s",
                  "s"," ">>)

(***************************************************************************)
(* Properties of _wrap_executable_code                                     *)
(***************************************************************************)

\* The lines of a list at the positions of a set, in their order
RECURSIVE LinesAt(_, _)
LinesAt(lines, positions) ==
    IF lines = <<>> THEN <<>>
    ELSE LinesAt(SubSeq(lines, 1, Len(lines) - 1), positions)
         \o (IF Len(lines) \in positions THEN <<lines[Len(lines)]>> ELSE <<>>)

\* Has _wrap_executable_code returned with every line of its input in
\* exactly one of its two groups, the lines of each group in the order of the
\* input, and the headers of top-level definitions, the imports and the
\* blank lines in the module-level group?
WrapPartitioned ==
    /\ call.fn = "_wrap_executable_code"
    /\ ret.returned
    /\ LET lines == SplitLines(call.code)
           starts(k, chars) == StartsWith(Strip(lines[k]), chars)
           header(k) == /\ starts(k, <<"d","e","f"," ">>) \/ starts(k, <<"c","l","a","s","s"," ">>)
                        /\ ~StartsWith(lines[k], <<" ">>)
       IN  \E module_level \in SUBSET (1..Len(lines)) :
              /\ ret.w.definitions = LinesAt(lines, module_level)
              /\ ret.w.executable_lines = LinesAt(lines, (1..Len(lines)) \ module_level)
              /\ \A k \in 1..Len(lines) :
                    (\/ header(k)
                     \/ starts(k, <<"i","m","p","o","r","t">>)
                     \/ starts(k, <<"f","r","o","m"," ">>)
                     \/ Strip(lines[k]) = <<>>) => k \in module_level

\* C30: every call of _wrap_executable_code returns, and when it has
\* returned each line of the input is in exactly one of the two groups, the
\* module-level one or the executable one, the lines of each group in their
\* order in the input.
C30_WrapTerminatesAndPartitions == <>[]WrapPartitioned

\* C30 witness: the call has returned, a definition with its body line and
\* an import went to the module-level group and a statement to the
\* executable group.
C30_Witness ==
    /\ WrapPartitioned
    /\ Len(ret.w.definitions) >= 2
    /\ ret.w.executable_lines # <<>>

====
